---- MODULE Spec2Model ----
(***************************************************************************)
(* A model of the NIST compliance RAG explorer: the interactive loop of    *)
(* src/src/main.py, generate_response of src/src/response_generator.py and *)
(* normalize_control_id of src/src/parsers.py.                             *)
(*                                                                         *)
(* Text is modelled as text: a Python str is a TLA+ string, and the regex  *)
(* and str operations of the code are operators on strings (Len, SubSeq    *)
(* and \o, which TLC evaluates on strings).                                 *)
(***************************************************************************)
EXTENDS Naturals, Sequences, FiniteSets, TLC

VARIABLES
    pc,                \* where main() stands: at which input() call, or ended
    query,             \* main: query (the marker is appended to it at line 174)
    generate_checklist,\* main: generate_checklist
    retrieved_docs,    \* main: retrieved_docs
    result,            \* outcome of the last generate_response call of the turn
    prompt_result,     \* outcome of the first call when it asked for clarification
    calls,             \* generate_response calls made for the current query
    typed,             \* the query text as the user entered it at line 115
    unknown_queries,   \* content of knowledge/unknown_queries.pkl
    turns,             \* queries accepted by the loop so far
    n_in,              \* normalize_control_id: the argument
    n_out,             \* normalize_control_id: the value returned last
    n_pc,              \* normalize_control_id: how often it was applied
    extractor,         \* extract_actionable_steps: the argument and the outcome
    exporter,          \* save_checklist: the clock, the files and the calls made
    startup,           \* main() before the loop: the sources and what was loaded
    loader             \* load_stig_data: the folder and what was loaded from it

vars == <<pc, query, generate_checklist, retrieved_docs, result, prompt_result,
          calls, typed, unknown_queries, turns, n_in, n_out, n_pc,
          extractor, exporter, startup, loader>>

(***************************************************************************)
(* Bounds of the model.                                                    *)
(***************************************************************************)
MaxLen == 4        \* longest control-id string normalize_control_id is fed
MaxStigs == 10     \* rule-set documents loaded from the STIG folder
MaxChoice == 6     \* largest number typed at the technology prompt
MaxTurns == 1      \* queries one session accepts
MaxSentences == 3  \* sentences of a description extract_actionable_steps is fed
MaxClock == 2      \* seconds the clock of save_checklist advances
MaxCalls == 2      \* calls of save_checklist
MaxFiles == 3      \* files of the STIG folder load_stig_data is fed

(***************************************************************************)
(* Python str operations.                                                  *)
(***************************************************************************)
\* s[i], 1-based; "" outside the string
Char(s, i) == IF 1 <= i /\ i <= Len(s) THEN SubSeq(s, i, i) ELSE ""

UpperAlphabet == "ABCDEFGHIJKLMNOPQRSTUVWXYZ"

LowerAlphabet == "abcdefghijklmnopqrstuvwxyz"

\* str.isspace for the characters of the model
Whitespace == {" ", "\t"}

IsDigit(c) == c \in {"0", "1", "2", "3", "4", "5", "6", "7", "8", "9"}

\* the least element of a set of numbers, 0 for the empty set
MinOrZero(S) == IF S = {} THEN 0 ELSE CHOOSE i \in S : \A j \in S : i <= j

\* the lower-case letter of each upper-case letter, and back
ToLowerMap ==
    [c \in {SubSeq(UpperAlphabet, i, i) : i \in 1..26} |->
        SubSeq(LowerAlphabet, MinOrZero({k \in 1..26 : SubSeq(UpperAlphabet, k, k) = c}),
                              MinOrZero({k \in 1..26 : SubSeq(UpperAlphabet, k, k) = c}))]

ToUpperMap ==
    [c \in {SubSeq(LowerAlphabet, i, i) : i \in 1..26} |->
        SubSeq(UpperAlphabet, MinOrZero({k \in 1..26 : SubSeq(LowerAlphabet, k, k) = c}),
                              MinOrZero({k \in 1..26 : SubSeq(LowerAlphabet, k, k) = c}))]

\* regex [a-z] and [A-Z]
IsLowerLetter(c) == c \in DOMAIN ToUpperMap

IsUpperLetter(c) == c \in DOMAIN ToLowerMap

LowerChar(c) == IF IsUpperLetter(c) THEN ToLowerMap[c] ELSE c

UpperChar(c) == IF IsLowerLetter(c) THEN ToUpperMap[c] ELSE c

\* regex [a-z0-9] under re.IGNORECASE
IsAlnum(c) == IsDigit(c) \/ IsLowerLetter(c) \/ IsUpperLetter(c)

\* regex \w
IsWordChar(c) == IsAlnum(c) \/ c = "_"

RECURSIVE Lower(_)
\* str.lower
Lower(s) ==
    IF Len(s) <= 1 THEN LowerChar(s)
    ELSE Lower(SubSeq(s, 1, Len(s) \div 2)) \o Lower(SubSeq(s, (Len(s) \div 2) + 1, Len(s)))

RECURSIVE Upper(_)
\* str.upper
Upper(s) ==
    IF Len(s) <= 1 THEN UpperChar(s)
    ELSE Upper(SubSeq(s, 1, Len(s) \div 2)) \o Upper(SubSeq(s, (Len(s) \div 2) + 1, Len(s)))

\* pat matches s at position i (1-based)
MatchAt(s, pat, i) == i >= 1 /\ i + Len(pat) - 1 <= Len(s) /\ SubSeq(s, i, i + Len(pat) - 1) = pat

\* Python: pat in s
Contains(s, pat) == \E i \in 1..(Len(s) + 1) : MatchAt(s, pat, i)

\* str.find, 1-based; 0 when pat is not in s
Find(s, pat) == MinOrZero({i \in 1..(Len(s) + 1) : MatchAt(s, pat, i)})

StartsWith(s, pat) == MatchAt(s, pat, 1)

EndsWith(s, pat) == MatchAt(s, pat, Len(s) - Len(pat) + 1)

RECURSIVE LStrip(_)
LStrip(s) == IF s # "" /\ Char(s, 1) \in Whitespace THEN LStrip(SubSeq(s, 2, Len(s))) ELSE s

RECURSIVE RStrip(_)
RStrip(s) == IF s # "" /\ Char(s, Len(s)) \in Whitespace THEN RStrip(SubSeq(s, 1, Len(s) - 1)) ELSE s

\* str.strip
Strip(s) == RStrip(LStrip(s))

RECURSIVE DigitRun(_, _)
\* length of the longest run of digits of s that starts at position i
DigitRun(s, i) == IF IsDigit(Char(s, i)) THEN 1 + DigitRun(s, i + 1) ELSE 0

RECURSIVE AlnumRun(_, _)
\* length of the longest run of [a-z0-9] (IGNORECASE) of s that starts at i
AlnumRun(s, i) == IF IsAlnum(Char(s, i)) THEN 1 + AlnumRun(s, i + 1) ELSE 0

RECURSIVE SpaceRun(_, _)
\* length of the longest run of whitespace of s that starts at i
SpaceRun(s, i) == IF Char(s, i) \in Whitespace THEN 1 + SpaceRun(s, i + 1) ELSE 0

RECURSIVE WordRun(_, _)
\* length of the longest run of non-whitespace of s that starts at i
WordRun(s, i) == IF Char(s, i) # "" /\ Char(s, i) \notin Whitespace THEN 1 + WordRun(s, i + 1) ELSE 0

RECURSIVE TrailingDigits(_)
\* the number of digits s ends with
TrailingDigits(s) ==
    IF IsDigit(Char(s, Len(s))) THEN 1 + TrailingDigits(SubSeq(s, 1, Len(s) - 1)) ELSE 0

RECURSIVE StrToInt(_)
\* int(s) for a string of digits
StrToInt(s) ==
    IF s = "" THEN 0
    ELSE 10 * StrToInt(SubSeq(s, 1, Len(s) - 1))
         + MinOrZero({d \in 0..9 : Char("0123456789", d + 1) = Char(s, Len(s))})

RECURSIVE IntToStr(_)
\* str(n)
IntToStr(n) ==
    IF n < 10 THEN Char("0123456789", n + 1)
    ELSE IntToStr(n \div 10) \o Char("0123456789", (n % 10) + 1)

\* str.isdigit
IsDigitStr(s) == s # "" /\ \A i \in 1..Len(s) : IsDigit(Char(s, i))

RECURSIVE SplitWords(_)
\* str.split(): the words between runs of whitespace
SplitWords(s) ==
    IF LStrip(s) = "" THEN <<>>
    ELSE <<SubSeq(LStrip(s), 1, WordRun(LStrip(s), 1))>>
         \o SplitWords(SubSeq(LStrip(s), WordRun(LStrip(s), 1) + 1, Len(LStrip(s))))

RECURSIVE Join(_, _)
\* sep.join(parts)
Join(sep, parts) ==
    IF parts = <<>> THEN ""
    ELSE IF Len(parts) = 1 THEN parts[1]
    ELSE parts[1] \o sep \o Join(sep, Tail(parts))

RECURSIVE SplitOn(_, _)
\* str.split(sep) for a non-empty sep; k is where sep is found first
SplitOnAt(s, sep, k) ==
    IF k = 0 THEN <<s>>
    ELSE <<SubSeq(s, 1, k - 1)>> \o SplitOn(SubSeq(s, k + Len(sep), Len(s)), sep)

SplitOn(s, sep) == SplitOnAt(s, sep, Find(s, sep))

\* str.split(sep, 1)
SplitOnce(s, sep) ==
    IF Find(s, sep) = 0 THEN <<s>>
    ELSE <<SubSeq(s, 1, Find(s, sep) - 1), SubSeq(s, Find(s, sep) + Len(sep), Len(s))>>

\* str.splitlines: a line break at the end of the text ends the last line
SplitLines(s) ==
    IF s = "" THEN <<>>
    ELSE IF EndsWith(s, "\n") THEN SplitOn(SubSeq(s, 1, Len(s) - 1), "\n")
    ELSE SplitOn(s, "\n")

RECURSIVE ReplaceAll(_, _, _)
\* str.replace(old, new) for a non-empty old; k is where old is found first
ReplaceAllAt(s, old, new, k) ==
    IF k = 0 THEN s
    ELSE SubSeq(s, 1, k - 1) \o new \o ReplaceAll(SubSeq(s, k + Len(old), Len(s)), old, new)

ReplaceAll(s, old, new) == ReplaceAllAt(s, old, new, Find(s, old))

\* str.capitalize
Capitalize(s) == IF s = "" THEN "" ELSE UpperChar(Char(s, 1)) \o Lower(SubSeq(s, 2, Len(s)))

\* s[:n]
Prefix(s, n) == SubSeq(s, 1, IF n < Len(s) THEN n ELSE Len(s))

\* the elements of a sequence, as a set
Range(seq) == {seq[i] : i \in 1..Len(seq)}

(***************************************************************************)
(* parsers.normalize_control_id                                            *)
(***************************************************************************)
RECURSIVE SquashPairs(_)
\* a sub of \s\s instead of \s+: every PAIR of whitespace becomes one space
SquashPairs(s) ==
    IF s = "" THEN ""
    ELSE IF Char(s, 1) \in Whitespace /\ Char(s, 2) \in Whitespace
         THEN " " \o SquashPairs(SubSeq(s, 3, Len(s)))
         ELSE Char(s, 1) \o SquashPairs(SubSeq(s, 2, Len(s)))

RECURSIVE SquashSpaces(_)
\* line 12: re.sub(r'\s+', ' ', s): every run of whitespace becomes one space
SquashSpaces(s) ==
    IF s = "" THEN ""
    ELSE IF Char(s, 1) \in Whitespace
         THEN " " \o SquashSpaces(SubSeq(s, 1 + SpaceRun(s, 1), Len(s)))
         ELSE Char(s, 1) \o SquashSpaces(SubSeq(s, 2, Len(s)))

RECURSIVE UpperParens(_)
\* line 16: re.sub(r'\((\d+|[a-z])\)', lambda m: f"({m.group(1).upper()})", s);
\* d is the number of digits after the first character
UpperParensAt(s, d) ==
    IF Char(s, 1) = "(" /\ d >= 1 /\ Char(s, 2 + d) = ")"
    THEN SubSeq(s, 1, 2 + d) \o UpperParens(SubSeq(s, 3 + d, Len(s)))
    ELSE IF Char(s, 1) = "(" /\ IsLowerLetter(Char(s, 2)) /\ Char(s, 3) = ")"
    THEN "(" \o UpperChar(Char(s, 2)) \o ")" \o UpperParens(SubSeq(s, 4, Len(s)))
    ELSE Char(s, 1) \o UpperParens(SubSeq(s, 2, Len(s)))

UpperParens(s) == IF s = "" THEN "" ELSE UpperParensAt(s, DigitRun(s, 2))

normalize_control_id(control_id) ==
    IF control_id = "" THEN ""
    ELSE UpperParens(Upper(SquashSpaces(Strip(control_id))))

(***************************************************************************)
(* The control-id strings normalize_control_id is checked on: every string *)
(* of at most MaxLen characters over an alphabet with a lower-case and an  *)
(* upper-case letter, a digit, the parentheses and two kinds of            *)
(* whitespace, and the ids of the specification's examples.                *)
(***************************************************************************)
NormAlphabet == {"a", "C", "7", "(", ")", " ", "\t"}

RECURSIVE StringsUpTo(_)
StringsUpTo(n) ==
    IF n = 0 THEN {""}
    ELSE StringsUpTo(n - 1) \cup {s \o c : s \in StringsUpTo(n - 1), c \in NormAlphabet}

NormInputs == StringsUpTo(MaxLen) \cup {"ac-7 (a)", "  ac-2(1)  ", "au-3  (2)(b)", "IA-5 \t a"}

NormIdle == n_in = "" /\ n_out = "" /\ n_pc = 0

(***************************************************************************)
(* parsers.extract_actionable_steps.  A call ends by returning a list of   *)
(* steps or by raising; raised names the exception ("" when it returned).  *)
(***************************************************************************)
\* lines 31-34
action_verbs ==
    {"verify", "ensure", "confirm", "check", "review", "validate", "examine",
     "determine", "identify", "monitor", "assess", "test", "inspect"}

\* line 29: the pattern (?<!\w\.\w.)(?<![A-Z][a-z]\.)(?<=\.|\?)\s matches the
\* character of s at position i
SentenceBreakAt(s, i) ==
    /\ Char(s, i) \in Whitespace
    /\ Char(s, i - 1) \in {".", "?"}
    /\ ~(IsWordChar(Char(s, i - 4)) /\ Char(s, i - 3) = "." /\ IsWordChar(Char(s, i - 2)))
    /\ ~(IsUpperLetter(Char(s, i - 3)) /\ IsLowerLetter(Char(s, i - 2)) /\ Char(s, i - 1) = ".")

RECURSIVE SentencesFrom(_, _)
\* line 29: re.split of s at the matches, from position start on; b is the
\* position of the first match at or after start, 0 when there is none
SentencesAt(s, start, b) ==
    IF b = 0 THEN <<SubSeq(s, start, Len(s))>>
    ELSE <<SubSeq(s, start, b - 1)>> \o SentencesFrom(s, b + 1)

SentencesFrom(s, start) ==
    SentencesAt(s, start, MinOrZero({i \in start..Len(s) : SentenceBreakAt(s, i)}))

RECURSIVE RStripPunct(_)
\* line 44: str.rstrip('.,;')
RStripPunct(s) ==
    IF s # "" /\ Char(s, Len(s)) \in {".", ",", ";"}
    THEN RStripPunct(SubSeq(s, 1, Len(s) - 1)) ELSE s

\* lines 37-45: the stripped sentence is taken as a step
IsVerbLed(sentence) ==
    /\ Len(SplitWords(sentence)) >= 3
    /\ RStripPunct(Lower(SplitWords(sentence)[1])) \in action_verbs

\* lines 49-50 and 56-57: the text ends with "." or "?"
Terminated(s) == IF EndsWith(s, ".") \/ EndsWith(s, "?") THEN s ELSE s \o "."

\* lines 47-50, for a stripped sentence
StepOf(sentence) ==
    Terminated(SquashSpaces(UpperChar(Char(sentence, 1)) \o SubSeq(sentence, 2, Len(sentence))))

\* lines 36-51: the steps of the verb-led sentences, in order
VerbSteps(sentences) ==
    [i \in 1..Len(SelectSeq(sentences, LAMBDA x : Strip(x) # "" /\ IsVerbLed(Strip(x))))
        |-> StepOf(Strip(SelectSeq(sentences, LAMBDA x : Strip(x) # "" /\ IsVerbLed(Strip(x)))[i]))]

\* lines 54-60, steps = what the loop collected, first = sentences[0].strip();
\* first[0] of line 58 raises IndexError for an empty first
StepsOrFallback(steps, first) ==
    IF steps # <<>> THEN [raised |-> "", steps |-> SubSeq(steps, 1, IF Len(steps) < 10 THEN Len(steps) ELSE 10)]
    ELSE IF first = "" THEN [raised |-> "IndexError", steps |-> <<>>]
    ELSE [raised |-> "",
          steps |-> <<UpperChar(Char(Terminated(first), 1))
                      \o SubSeq(Terminated(first), 2, Len(Terminated(first)))>>]

\* lines 20-60
extract_actionable_steps(description) ==
    IF description = "" THEN [raised |-> "", steps |-> <<>>]
    ELSE StepsOrFallback(VerbSteps(SentencesFrom(description, 1)),
                         Strip(SentencesFrom(description, 1)[1]))

\* no call of extract_actionable_steps was made
ExtractIdle == extractor = [pc |-> "idle", description |-> "", raised |-> "", steps |-> <<>>]

(***************************************************************************)
(* colorama: the escape sequences of Fore and Style.  "~" stands for the   *)
(* ESC character.                                                          *)
(***************************************************************************)
Fore_RED == "~[31m"

Fore_GREEN == "~[32m"

Fore_YELLOW == "~[33m"

Fore_MAGENTA == "~[35m"

Fore_CYAN == "~[36m"

Fore_WHITE == "~[37m"

Style_BRIGHT == "~[1m"

Style_RESET_ALL == "~[0m"

(***************************************************************************)
(* The knowledge base main() loads before the loop (lines 69-104).  It is  *)
(* read-only afterwards, so it is a constant of the model.                 *)
(***************************************************************************)
\* the rule-set documents of the STIG folder, by technology family, in the
\* order os.listdir returns them; document i is of family FamilyCycle[i]
\* (the cycle repeats after its end)
FamilyCycle ==
    <<"windows", "ios", "vmware", "windows", "ios", "vmware", "windows", "ios", "splunk", "windows">>

FamilyTitle(f) ==
    CASE f = "windows" -> "Windows Server"
      [] f = "ios" -> "Apple iOS"
      [] f = "vmware" -> "VMware vSphere"
      [] OTHER -> "Splunk Enterprise"

\* the title element of rule-set document i
StigTitle(i) == FamilyTitle(FamilyCycle[((i - 1) % Len(FamilyCycle)) + 1]) \o " STIG V" \o IntToStr(i)

\* what load_stig_data returns for rule-set document i: technology and title
\* are both the text of the document's title element
StigInfo(i) == [file |-> "stig" \o IntToStr(i) \o ".xml", title |-> StigTitle(i), technology |-> StigTitle(i)]

available_stigs == [i \in 1..MaxStigs |-> StigInfo(i)]

\* the number of the rule-set document of technology tech, 0 when there is none
StigNumber(tech) == MinOrZero({i \in 1..MaxStigs : StigTitle(i) = tech})

\* the rules document i holds for a control: every fourth document, from the
\* first on, holds one rule for AC-2, every ninth document two rules for AU-3
RulesOf(i, control_id) ==
    IF i = 0 THEN <<>>
    ELSE IF control_id = "AC-2" /\ i % 4 = 1
    THEN <<[rule_id |-> "V-" \o IntToStr(i), title |-> "Disable unused accounts",
            severity |-> "high",
            fix |-> "Assessment: Check accounts.\nFix: Disable them.\nAsk the owner."]>>
    ELSE IF control_id = "AU-3" /\ i % 9 = 0
    THEN <<[rule_id |-> "V-" \o IntToStr(i), title |-> "Record event type",
            severity |-> "medium", fix |-> "Fix: Enable auditing."],
           [rule_id |-> "V-" \o IntToStr(i) \o "b", title |-> "Record event time",
            severity |-> "low", fix |-> "Set the clock."]>>
    ELSE <<>>

\* all_stig_recommendations.get(tech, {}).get(control_id, [])
Recommendations(tech, control_id) == RulesOf(StigNumber(tech), control_id)

\* catalog_data of main(), as extract_controls_from_json returns it
catalog_data ==
    <<[control_id |-> normalize_control_id("ac-2"), title |-> "Account Management",
       description |-> "Manage system accounts. Review accounts monthly.",
       parameters |-> <<"frequency">>],
      [control_id |-> normalize_control_id("au-3"), title |-> "Content of Audit Records",
       description |-> "Ensure audit records contain the event type.",
       parameters |-> <<>>]>>

\* control_id in control_details
InCatalog(control_id) == \E i \in 1..Len(catalog_data) : catalog_data[i].control_id = control_id

\* control_details[control_id]: a later entry of catalog_data replaces an earlier one
control_details(control_id) ==
    catalog_data[CHOOSE i \in 1..Len(catalog_data) :
                     /\ catalog_data[i].control_id = control_id
                     /\ \A j \in (i + 1)..Len(catalog_data) : catalog_data[j].control_id # control_id]

\* assessment_procedures of main(): AC-2 has a procedure list, AU-3 has none
assessment_procedures ==
    [c \in {normalize_control_id("ac-2")} |->
        <<"Examine the account management policy.", "Interview the account managers.">>]

\* cci_to_nist as load_cci_mapping returns it, in the order of the file: the
\* targets are normalized; CM-6 is a target that is not in the catalog
cci_items ==
    <<[cci |-> "CCI-000130", nist |-> normalize_control_id("AU-3")],
      [cci |-> "CCI-000135", nist |-> normalize_control_id("AU-3")],
      [cci |-> "CCI-000366", nist |-> normalize_control_id("CM-6")],
      [cci |-> "CCI-001234", nist |-> normalize_control_id("AC-2")]>>

\* cci_id in cci_to_nist
CciMapped(cci_id) == \E i \in 1..Len(cci_items) : cci_items[i].cci = cci_id

\* cci_to_nist[cci_id]
cci_to_nist(cci_id) == cci_items[CHOOSE i \in 1..Len(cci_items) : cci_items[i].cci = cci_id].nist

\* all_documents of main(): the texts of the vector store
CatalogDoc(ctrl) ==
    "NIST 800-53 Rev 5 Catalog, " \o ctrl.control_id \o ": " \o ctrl.title \o " " \o ctrl.description

AssessmentDoc(ctrl) ==
    "NIST 800-53 Rev 5 Assessment, " \o ctrl.control_id \o ": To assess this control, verify "
    \o Lower(ctrl.description) \o " Check parameters: "
    \o (IF ctrl.parameters # <<>> THEN Join(", ", ctrl.parameters) ELSE "none specified") \o "."

\* extract_high_baseline_controls: "High Baseline, {id}: {title}" for each
\* control of the baseline; AC-20 belongs to the high baseline
high_baseline_data == <<"High Baseline, AC-20: Use of External Systems">>

\* retrieve_documents(query, model, index, doc_list): an ordered list of texts
\* of the vector store; which ones is the embedding model's choice
RetrievalResults ==
    { <<>>,
      <<AssessmentDoc(catalog_data[2]), CatalogDoc(catalog_data[2]), CatalogDoc(catalog_data[1]),
        high_baseline_data[1]>> }

(***************************************************************************)
(* response_generator.generate_response: the parts before the response is  *)
(* assembled.                                                              *)
(***************************************************************************)
\* the phrase main() appends to the query (line 174) and generate_response
\* looks for (lines 206 and 220)
MarkerPhrase == "with technology index "

\* re.sub(r" with technology index \d+$", "", query)
StripMarker(q) ==
    IF /\ TrailingDigits(q) >= 1
       /\ EndsWith(SubSeq(q, 1, Len(q) - TrailingDigits(q)), " " \o MarkerPhrase)
    THEN SubSeq(q, 1, Len(q) - TrailingDigits(q) - Len(MarkerPhrase) - 1)
    ELSE q

\* line 206
original_query(q) == Strip(StripMarker(q))

\* re.search(r"with technology index (\d+)", query_lower): where it matches
\* first, 0 when it does not
TechIndexPos(ql) ==
    MinOrZero({i \in 1..Len(ql) : MatchAt(ql, MarkerPhrase, i) /\ IsDigit(Char(ql, i + Len(MarkerPhrase)))})

\* a call that never looks for the index phrase
HasTechIndexNever(q) == FALSE

\* line 221: tech_index_match is not None
HasTechIndex(q) == TechIndexPos(Lower(q)) # 0

\* the number written in s from position d on
NumberAt(s, d) == StrToInt(SubSeq(s, d, d + DigitRun(s, d) - 1))

\* line 222: int(tech_index_match.group(1))
SelectedIdx(q) == NumberAt(Lower(q), TechIndexPos(Lower(q)) + Len(MarkerPhrase))

\* lines 210-211: any(w in original_lower for w in [...])
is_assessment_query(ol) == \E w \in {"assess", "audit", "verify", "check"} : Contains(ol, w)

is_implement_query(ol) == \E w \in {"implement", "configure", "harden", "setup"} : Contains(ol, w)

\* the length of the match of (?:\([a-z0-9]+\))? at position j of s
ParenGroupLen(s, j) ==
    IF Char(s, j) = "(" /\ AlnumRun(s, j + 1) >= 1 /\ Char(s, j + 1 + AlnumRun(s, j + 1)) = ")"
    THEN AlnumRun(s, j + 1) + 2
    ELSE 0

\* \w{2}-\d+ matches at position i of s
ControlStartsAt(s, i) ==
    /\ IsWordChar(Char(s, i)) /\ IsWordChar(Char(s, i + 1)) /\ Char(s, i + 2) = "-"
    /\ IsDigit(Char(s, i + 3))

\* the length of the match of \w{2}-\d+(?:\([a-z0-9]+\))? at position i of s
\* (re.IGNORECASE), 0 when it does not match there
ControlMatchLen(s, i) ==
    IF ControlStartsAt(s, i)
    THEN 3 + DigitRun(s, i + 3) + ParenGroupLen(s, i + 3 + DigitRun(s, i + 3))
    ELSE 0

RECURSIVE FindControls(_, _)
\* one step of re.findall at position i, n = the length of the match there
FindControlsStep(s, i, n) ==
    IF n > 0 THEN <<SubSeq(s, i, i + n - 1)>> \o FindControls(s, i + n)
    ELSE FindControls(s, i + 1)

\* line 214: re.findall of the control-id pattern, from position i on
FindControls(s, i) == IF i > Len(s) THEN <<>> ELSE FindControlsStep(s, i, ControlMatchLen(s, i))

\* line 217: doc.split(', ')[1].split(': ')[0]
DocControlId(doc) == SplitOn(SplitOn(doc, ", ")[2], ": ")[1]

\* lines 215-217, from the matches of line 214
ControlIdsOf(control_matches, catalog_docs) ==
    IF control_matches # <<>>
    THEN [i \in 1..Len(control_matches) |-> normalize_control_id(Upper(control_matches[i]))]
    ELSE [i \in 1..Len(catalog_docs) |-> DocControlId(catalog_docs[i])]

\* lines 214-217
control_ids(ol, docs) == ControlIdsOf(FindControls(ol, 1), SelectSeq(docs, LAMBDA d : Contains(d, "Catalog")))

\* lines 226-235 and 287-296, in the order of the dict
tech_patterns ==
    <<[tech |-> "windows", pats |-> {"windows", "microsoft", "win", "ms", "windows 10", "windows server"}],
      [tech |-> "linux", pats |-> {"linux", "ubuntu", "red hat", "rhel", "centos", "suse", "almalinux", "redhat"}],
      [tech |-> "ios", pats |-> {"ios", "ipad", "apple", "macos"}],
      [tech |-> "android", pats |-> {"android", "google", "samsung", "pixel"}],
      [tech |-> "vmware", pats |-> {"vmware", "esxi", "vsphere"}],
      [tech |-> "solaris", pats |-> {"solaris", "sun"}],
      [tech |-> "splunk", pats |-> {"splunk"}],
      [tech |-> "tippingpoint", pats |-> {"tippingpoint", "trend micro"}]>>

\* nlp(text): the tokens of the text, which the tagger cuts at whitespace
Tokens(text) == SplitWords(text)

\* lines 297-302: the technology of the first pattern list that has a pattern
\* in token t, "" when none has
TokenTech(t) ==
    IF \A k \in 1..Len(tech_patterns) : \A p \in tech_patterns[k].pats : ~Contains(t, p)
    THEN ""
    ELSE tech_patterns[MinOrZero({k \in 1..Len(tech_patterns) :
                                     \E p \in tech_patterns[k].pats : Contains(t, p)})].tech

\* lines 285-303 (and 224-242): list(set(tech_keywords))
tech_keywords(ol) == {TokenTech(Lower(t)) : t \in Range(Tokens(ol))} \ {""}

\* lines 307-310 (and 244-247)
filtered_stigs(kws) ==
    IF kws # {}
    THEN SelectSeq(available_stigs, LAMBDA s : \E kw \in kws : Contains(Lower(s.title), kw))
    ELSE available_stigs

\* the match of cci-\d+ at position i of ol, "" for i = 0
CciMatchAt(ol, i) == IF i = 0 THEN "" ELSE SubSeq(ol, i, i + 3 + DigitRun(ol, i + 4))

\* re.search(r"(cci-\d+)", original_lower): the match, "" when there is none
CciMatch(ol) ==
    CciMatchAt(ol, MinOrZero({i \in 1..Len(ol) : MatchAt(ol, "cci-", i) /\ IsDigit(Char(ol, i + 4))}))

\* the reverse-lookup pattern
\*   cci\s*mappings\s*for\s*(\w{2}-\d+(?:\s*[a-z])?(?:\([a-z0-9]+\))?)
\* piece by piece; each operator gives the captured control id, "" when the
\* rest of the pattern does not match at its position.
\* (?:\s*[a-z])?: d = the end of the digits, e = the end of the whitespace
RevLetterEnd(s, d, e) == IF IsLowerLetter(Char(s, e)) THEN e + 1 ELSE d

\* the end of the capture that has its digits end at d
RevCaptureEnd(s, d) ==
    RevLetterEnd(s, d, d + SpaceRun(s, d)) + ParenGroupLen(s, RevLetterEnd(s, d, d + SpaceRun(s, d)))

RevControl(s, c) ==
    IF ControlStartsAt(s, c) THEN SubSeq(s, c, RevCaptureEnd(s, c + 3 + DigitRun(s, c + 3)) - 1) ELSE ""

RevFor(s, b) == IF MatchAt(s, "for", b) THEN RevControl(s, b + 3 + SpaceRun(s, b + 3)) ELSE ""

RevMappings(s, a) == IF MatchAt(s, "mappings", a) THEN RevFor(s, a + 8 + SpaceRun(s, a + 8)) ELSE ""

ReverseMatchAt(s, i) == IF MatchAt(s, "cci", i) THEN RevMappings(s, i + 3 + SpaceRun(s, i + 3)) ELSE ""

\* line 273: re.search of the reverse-lookup pattern; group(1), "" when no match
ReverseMatch(ol) ==
    IF \A i \in 1..Len(ol) : ReverseMatchAt(ol, i) = "" THEN ""
    ELSE ReverseMatchAt(ol, MinOrZero({i \in 1..Len(ol) : ReverseMatchAt(ol, i) # ""}))

(***************************************************************************)
(* response_generator: rendering helpers.  Column padding and line         *)
(* wrapping are left out: every text of the model is shorter than the      *)
(* terminal width, so _wrap returns its text on one line.                  *)
(***************************************************************************)
\* _wrap(text, width, indent): the indent only shortens the width and
\* indents continuation lines; it is not put before the first line
_wrap(text) == IF Strip(text) = "" THEN "" ELSE Strip(text)

\* _parse_stig_fix: what one stripped line of the fix text does to the
\* three locals
ParseFixLine(line, acc) ==
    IF StartsWith(Lower(line), "assessment:")
    THEN [acc EXCEPT !.assessment = Strip(SubSeq(line, 12, Len(line)))]
    ELSE IF StartsWith(Lower(line), "fix:")
    THEN [acc EXCEPT !.fix = Strip(SubSeq(line, 5, Len(line)))]
    ELSE IF line # ""
    THEN [acc EXCEPT !.details = Append(acc.details, line)]
    ELSE acc

RECURSIVE ParseFixLines(_, _)
\* _parse_stig_fix: the loop over fix_text.splitlines()
ParseFixLines(lines, acc) ==
    IF lines = <<>> THEN acc
    ELSE ParseFixLines(Tail(lines), ParseFixLine(Strip(lines[1]), acc))

_parse_stig_fix(fix_text) ==
    ParseFixLines(SplitLines(fix_text), [assessment |-> "", fix |-> "", details |-> <<>>])

severity_colors(sev) ==
    CASE sev = "High" -> Fore_RED
      [] sev = "Medium" -> Fore_YELLOW
      [] sev = "Low" -> Fore_GREEN
      [] OTHER -> Fore_WHITE

TableSeparator == Fore_CYAN \o "+--+--+--+" \o Style_RESET_ALL

\* _format_stig_table: the lines one recommendation adds (lines 151-187),
\* sev = its capitalized severity, parts = its parsed fix text
RecLinesOf(rec, sev, parts) ==
    <<Fore_CYAN \o "| " \o rec.rule_id \o " | " \o _wrap(rec.title) \o " | "
          \o severity_colors(sev) \o sev \o Style_RESET_ALL \o " |">>
    \o (IF parts.assessment # ""
        THEN <<Fore_MAGENTA \o Style_BRIGHT \o _wrap(parts.assessment) \o Style_RESET_ALL>>
        ELSE <<>>)
    \o (IF parts.fix # ""
        THEN <<Fore_GREEN \o Style_BRIGHT \o _wrap(parts.fix) \o Style_RESET_ALL>>
        ELSE <<>>)
    \o (IF parts.details # <<>>
        THEN <<Fore_WHITE \o Style_BRIGHT \o _wrap(Join(" ", parts.details)) \o Style_RESET_ALL>>
        ELSE <<>>)
    \o <<TableSeparator>>

RecLines(rec) == RecLinesOf(rec, Capitalize(rec.severity), _parse_stig_fix(rec.fix))

RECURSIVE AllRecLines(_)
AllRecLines(recs) == IF recs = <<>> THEN <<>> ELSE RecLines(recs[1]) \o AllRecLines(Tail(recs))

\* a list without its last element
DropLast(lines) == SubSeq(lines, 1, Len(lines) - 1)

\* _format_stig_table(recs, term_width)
_format_stig_table(recs) ==
    IF recs = <<>> THEN "No specific STIG guidance."
    ELSE Join("\n", DropLast(<<Fore_CYAN \o "| Rule ID | Title | Severity |" \o Style_RESET_ALL,
                               TableSeparator>> \o AllRecLines(recs)))

(***************************************************************************)
(* generate_response, lines 336-397: the final response.                   *)
(* A call ends by returning a text or by raising; raised names the         *)
(* exception ("" when the call returned).                                  *)
(***************************************************************************)
\* the names response_generator.py binds that the final response uses:
\* extract_actionable_steps is called at lines 359 and 385 and is neither
\* defined nor imported there (lines 1-9)
extract_actionable_steps_defined == FALSE

\* lines 377-382: what one selected technology adds for a control
TechGuidance(tech, recs) ==
    IF recs # <<>>
    THEN <<Fore_CYAN \o "   STIG Guidance for " \o tech \o ":" \o Style_RESET_ALL,
           _format_stig_table(recs)>>
    ELSE <<Fore_CYAN \o "   STIG Guidance for " \o tech \o ":" \o Style_RESET_ALL
           \o " No specific guidance.">>

RECURSIVE StigGuidance(_, _)
\* lines 375-382
StigGuidance(techs, control_id) ==
    IF techs = <<>> THEN <<>>
    ELSE TechGuidance(techs[1], Recommendations(techs[1], control_id))
         \o StigGuidance(Tail(techs), control_id)

RECURSIVE ProcedureLines(_)
\* lines 355-357: response.extend(_wrap(m, ...).splitlines()) for each m
ProcedureLines(methods) ==
    IF methods = <<>> THEN <<>>
    ELSE SplitLines(_wrap(methods[1])) \o ProcedureLines(Tail(methods))

\* line 366: the retrieved documents the guidance is taken from
GuidanceDocs(control_id, docs) ==
    SelectSeq(docs, LAMBDA d : Contains(d, control_id) /\ ~Contains(d, "Assessment"))

\* lines 366-372, refs = the documents of line 366
GuidanceOf(refs) ==
    IF refs # <<>> THEN ProcedureLines([i \in 1..Len(refs) |-> SplitOnce(refs[i], ": ")[2]])
    ELSE <<"     1. Follow the control description to enforce this requirement.">>

GuidanceLines(control_id, docs) == GuidanceOf(GuidanceDocs(control_id, docs))

\* lines 347-382: a control of the catalog, when nothing raises
CatalogSection(control_id, ctrl, ol, docs, selected_techs) ==
    <<Fore_YELLOW \o "1. " \o control_id \o " - " \o ctrl.title \o Style_RESET_ALL,
      "   - Purpose: " \o _wrap(Lower(SplitOn(ctrl.description, ".")[1]))>>
    \o (IF is_assessment_query(ol)
        THEN <<Fore_CYAN \o "   Assessment Steps:" \o Style_RESET_ALL>>
             \o ProcedureLines(assessment_procedures[control_id])
        ELSE IF is_implement_query(ol)
        THEN <<Fore_CYAN \o "   Implementation Guidance:" \o Style_RESET_ALL>>
             \o GuidanceLines(control_id, docs)
        ELSE <<>>)
    \o StigGuidance(selected_techs, control_id)

\* lines 342-392: one pass of the loop over control_ids; what it appends to
\* response, or the exception it raises
ControlSection(control_id, ol, docs, selected_techs, gen_checklist) ==
    IF ~InCatalog(control_id)
    THEN [raised |-> "",
          elems |-> <<Fore_YELLOW \o "1. " \o control_id \o Style_RESET_ALL,            \* lines 343-344
                      "   - Status: Not found in NIST 800-53 Rev 5 catalog.">>]
    ELSE IF is_assessment_query(ol) /\ control_id \notin DOMAIN assessment_procedures
            /\ ~extract_actionable_steps_defined
    THEN [raised |-> "NameError", elems |-> <<>>]                  \* line 359
    ELSE IF gen_checklist /\ ~extract_actionable_steps_defined
    THEN [raised |-> "NameError", elems |-> <<>>]                  \* line 385
    ELSE [raised |-> "",
          elems |-> CatalogSection(control_id, control_details(control_id), ol, docs, selected_techs)]

\* the loop goes on after a pass, or ends with the exception the pass raised
AfterSection(one, rest) ==
    IF one.raised # "" THEN one
    ELSE IF rest.raised # "" THEN rest
    ELSE [raised |-> "", elems |-> one.elems \o rest.elems]

RECURSIVE ControlSections(_, _, _, _, _)
\* lines 341-392: the loop; it stops at the first exception
ControlSections(ids, ol, docs, selected_techs, gen_checklist) ==
    IF ids = <<>> THEN [raised |-> "", elems |-> <<>>]
    ELSE AfterSection(ControlSection(ids[1], ol, docs, selected_techs, gen_checklist),
                      ControlSections(Tail(ids), ol, docs, selected_techs, gen_checklist))

\* a call that raised: it returns nothing; selected_techs is what the local
\* held when the exception was raised (<<>> when it was unbound)
Raised(name, selected_techs) == [raised |-> name, text |-> "", selected_techs |-> selected_techs]

\* a call that returned text
Returned(text, selected_techs) == [raised |-> "", text |-> text, selected_techs |-> selected_techs]

\* lines 338-339
ResponseHeader(ol, ids, selected_techs) ==
    <<Fore_CYAN \o "### " \o (IF is_assessment_query(ol) THEN "Assessing" ELSE "Implementing")
          \o " " \o Join(", ", ids) \o Style_RESET_ALL,
      "Based on NIST 800-53 Rev 5 and STIGs for: "
          \o (IF selected_techs # <<>> THEN Join(", ", selected_techs) ELSE "N/A") \o "\n">>

\* lines 394-397
JoinResponse(all) ==
    Join("\n", IF Len(all) <= 2
               THEN Append(all, Fore_RED \o "No specific information found for this query."
                                \o Style_RESET_ALL)
               ELSE all)

\* lines 341-397, sections = the outcome of the loop
FinalOf(response, sections, selected_techs) ==
    IF sections.raised # "" THEN Raised(sections.raised, selected_techs)
    ELSE Returned(JoinResponse(response \o sections.elems), selected_techs)

\* lines 336-397, entered with the response list so far and selected_techs
FinalResponse(response, selected_techs, ol, docs, gen_checklist) ==
    FinalOf(response \o ResponseHeader(ol, control_ids(ol, docs), selected_techs),
            ControlSections(control_ids(ol, docs), ol, docs, selected_techs, gen_checklist),
            selected_techs)

(***************************************************************************)
(* generate_response                                                       *)
(***************************************************************************)
AutoSelectMax == 3     \* line 321: up to this many candidates are auto-selected

ShownMax == 5          \* line 328: a prompt presents at most this many candidates

PromptTitleLen == 70   \* line 332: the title is cut to this length in a prompt

ClarificationMarker == "CLARIFICATION_NEEDED"

\* lines 265-271, normalized_control = the control the id maps to
CciLookupOf(cci_id, normalized_control) ==
    Returned(Join("\n",
        <<Fore_CYAN \o "CCI Lookup:" \o Style_RESET_ALL,
          "- " \o cci_id \o " maps to NIST " \o normalized_control>>
        \o (IF InCatalog(normalized_control)
            THEN <<"- **Title:** " \o control_details(normalized_control).title,
                   "- **Description:** " \o control_details(normalized_control).description>>
            ELSE <<>>)), <<>>)

\* lines 262-271: the id lookup, cci_id = cci_match.group(1).upper()
CciLookup(cci_id) ==
    CciLookupOf(cci_id, normalize_control_id(IF CciMapped(cci_id) THEN cci_to_nist(cci_id)
                                             ELSE "Not mapped to NIST 800-53 Rev 5"))

\* line 276: the entries of cci_to_nist that map to control_id
MatchingCcis(control_id) == SelectSeq(cci_items, LAMBDA it : normalize_control_id(it.nist) = control_id)

\* lines 275-282: the reverse lookup, control_id = the normalized capture
ReverseLookup(control_id) ==
    Returned(Join("\n",
        <<Fore_CYAN \o "CCI Mappings for " \o control_id \o ":" \o Style_RESET_ALL,
          IF MatchingCcis(control_id) # <<>>
          THEN "- CCIs: " \o Join(", ", [i \in 1..Len(MatchingCcis(control_id)) |->
                                            MatchingCcis(control_id)[i].cci])
          ELSE "- No CCI mappings found.">>), <<>>)

\* a prompt that presents every candidate instead of the first five
TopShownAll(filtered) == filtered

\* line 328: unique_techs[:5]
TopShown(filtered) == SubSeq(filtered, 1, IF Len(filtered) < ShownMax THEN Len(filtered) ELSE ShownMax)

\* lines 330-332: the numbered lines of the prompt
OptionLines(top) ==
    [i \in 1..Len(top) |->
        IntToStr(i) \o ". " \o top[i].technology \o " - " \o Prefix(top[i].title, PromptTitleLen) \o "..."]

\* lines 329-334, top = the candidates the prompt shows, total = how many there are
PromptText(top, total) ==
    Join("\n",
        <<Fore_CYAN \o "Multiple STIGs available (" \o IntToStr(total)
              \o " total). Showing top 5:" \o Style_RESET_ALL>>
        \o OptionLines(top)
        \o <<Fore_YELLOW \o "Next Step:" \o Style_RESET_ALL \o " Enter a number (1-"
              \o IntToStr(Len(top)) \o ", or 0 for all) to proceed.">>)
    \o "\n" \o ClarificationMarker

\* lines 328-334: the clarification prompt
ClarificationPrompt(filtered) == Returned(PromptText(TopShown(filtered), Len(filtered)), <<>>)

\* a lookup that numbers the candidates from the last one
TechToStigReversed(filtered, selected_idx) == filtered[Len(filtered) + 1 - selected_idx]

\* tech_to_stig[selected_idx] for 1 <= selected_idx <= len(tech_to_stig):
\* the dict is keyed i + 1 for the i-th (0-based) filtered rule set (line 249)
tech_to_stig(filtered, selected_idx) == filtered[selected_idx]

\* line 251: [s['technology'] for s in tech_to_stig.values()]
AllTechnologies(filtered) == [i \in 1..Len(filtered) |-> filtered[i].technology]

\* lines 249-256: the technologies a clarification turn selects; the call
\* returns the invalid-index error when ok is FALSE
ClarificationSelection(filtered, selected_idx) ==
    IF selected_idx = 0
    THEN [ok |-> TRUE, techs |-> AllTechnologies(filtered)]
    ELSE IF 1 <= selected_idx /\ selected_idx <= Len(filtered)
    THEN [ok |-> TRUE, techs |-> <<tech_to_stig(filtered, selected_idx).technology>>]
    ELSE [ok |-> FALSE, techs |-> <<>>]

\* lines 255-256
InvalidIndex(selected_idx) ==
    Returned(Join("\n", <<Fore_RED \o "Invalid technology index: " \o IntToStr(selected_idx)
                          \o Style_RESET_ALL>>), <<>>)

\* lines 221-257 and 336-397: the call of a clarification turn
ClarificationTurn(filtered, selected_idx, ol, docs, gen_checklist) ==
    IF ClarificationSelection(filtered, selected_idx).ok
    THEN FinalResponse(<<>>, ClarificationSelection(filtered, selected_idx).techs,
                       ol, docs, gen_checklist)
    ELSE InvalidIndex(selected_idx)

\* lines 316-334 (and 336-397): auto-select or prompt
AutoSelectOrPrompt(filtered, ol, docs, gen_checklist) ==
    IF Len(filtered) = 0
    THEN FinalResponse(<<Fore_YELLOW \o "No STIGs found for this control." \o Style_RESET_ALL>>,
                       <<>>, ol, docs, gen_checklist)
    ELSE IF Len(filtered) = 1
    THEN FinalResponse(<<>>, <<filtered[1].technology>>, ol, docs, gen_checklist)
    ELSE IF Len(filtered) <= AutoSelectMax
    THEN Raised("UnboundLocalError", <<>>)    \* line 326: selected_techs was never assigned
    ELSE ClarificationPrompt(filtered)

\* lines 219-397, ol = original_lower
Respond(q, ol, docs, gen_checklist) ==
    IF HasTechIndex(q)
    THEN ClarificationTurn(filtered_stigs(tech_keywords(ol)), SelectedIdx(q), ol, docs, gen_checklist)
    ELSE IF CciMatch(ol) # "" THEN CciLookup(Upper(CciMatch(ol)))
    ELSE IF ReverseMatch(ol) # "" THEN ReverseLookup(normalize_control_id(Upper(ReverseMatch(ol))))
    ELSE AutoSelectOrPrompt(filtered_stigs(tech_keywords(ol)), ol, docs, gen_checklist)

generate_response(q, docs, gen_checklist) == Respond(q, Lower(original_query(q)), docs, gen_checklist)

(***************************************************************************)
(* response_generator.save_checklist.  A row of the CSV file is the tuple  *)
(* of its seven fields; stig_recommendations is the dict of lines 386-389, *)
(* in the order of its keys: for each technology the recommendations of    *)
(* the one control.                                                        *)
(***************************************************************************)
\* line 60
ChecklistHeader ==
    <<"Source", "Control/Rule", "Action", "Assessment Task", "Severity", "Expected Evidence",
      "Status">>

\* lines 64-69, task = the lower-cased, cleaned and stripped step of line 63
TaskOf(task) ==
    IF Contains(task, "[assignment:")
    THEN "Verify "
         \o ReplaceAll(ReplaceAll(ReplaceAll(task, "[assignment: organization-defined ", ""),
                                  "]", ""),
                       "[withdrawn: incorporated into ac-6.]", "Withdrawn (see AC-6)")
         \o " as defined by your organization."
    ELSE "Verify " \o Capitalize(task) \o "."

\* lines 62-78: the rows of the steps
StepRows(control_id, steps) ==
    [i \in 1..Len(steps) |->
        <<"NIST 800-53", control_id, "Verify Compliance (" \o IntToStr(i) \o ")",
          TaskOf(Strip(ReplaceAll(ReplaceAll(Lower(steps[i]), "to assess this control, verify ", ""),
                                  "check parameters: none specified", ""))),
          "N/A", "Access control policy, logs, or config screenshots", "Pending">>]

RECURSIVE FormattedFix(_, _)
\* lines 83-92: the loop over the lines of the fix text (none of the fix
\* texts of the model has a line of one character, for which line[1] raises)
FormattedFix(fix_lines, formatted_fix) ==
    IF fix_lines = <<>> THEN formatted_fix
    ELSE IF Strip(fix_lines[1]) = "" THEN FormattedFix(Tail(fix_lines), formatted_fix)
    ELSE IF (IsDigit(Char(Strip(fix_lines[1]), 1)) /\ Char(Strip(fix_lines[1]), 2) = ".")
            \/ formatted_fix = <<>>
    THEN FormattedFix(Tail(fix_lines), Append(formatted_fix, "- " \o Strip(fix_lines[1])))
    ELSE FormattedFix(Tail(fix_lines),
                      [formatted_fix EXCEPT ![Len(formatted_fix)] = @ \o " " \o Strip(fix_lines[1])])

\* lines 93-102: the row of one recommendation
RecRow(tech, rec) ==
    <<"STIG " \o tech, rec.rule_id, "Configure and Verify",
      "Verify " \o rec.title \o ":\n" \o Join("\n", FormattedFix(SplitOn(rec.fix, "\n"), <<>>)),
      Capitalize(rec.severity), "Configuration settings, logs, or admin console screenshots",
      "Pending">>

RECURSIVE RecRows(_)
\* lines 80-102: the rows of the recommendations, technology by technology
RecRows(stig_recommendations) ==
    IF stig_recommendations = <<>> THEN <<>>
    ELSE [i \in 1..Len(stig_recommendations[1].recs) |->
              RecRow(stig_recommendations[1].tech, stig_recommendations[1].recs[i])]
         \o RecRows(Tail(stig_recommendations))

\* the header is written only when a row follows it
ChecklistRowsHeaderIfRows(control_id, steps, stig_recommendations) ==
    IF steps = <<>> /\ RecRows(stig_recommendations) = <<>> THEN <<>>
    ELSE <<ChecklistHeader>> \o StepRows(control_id, steps) \o RecRows(stig_recommendations)

\* lines 58-102: the rows written to the file opened with mode 'w'
ChecklistRows(control_id, steps, stig_recommendations) ==
    <<ChecklistHeader>> \o StepRows(control_id, steps) \o RecRows(stig_recommendations)

\* line 57: datetime.now().strftime('%Y%m%d_%H%M%S') at second now of the clock
Timestamp(now) == "20250101_00000" \o IntToStr(now)

\* line 57
ChecklistFilename(control_id, now) ==
    "assessment_checklists/checklist_" \o control_id \o "_" \o Timestamp(now) \o ".csv"

\* lines 386-389 of generate_response: the dict save_checklist is given
stig_recs(selected_techs, control_id) ==
    [i \in 1..Len(selected_techs) |->
        [tech |-> selected_techs[i], recs |-> Recommendations(selected_techs[i], control_id)]]

\* the file system after the rows were written to the file of that name
WriteFile(files, name, rows) ==
    [n \in DOMAIN files \cup {name} |-> IF n = name THEN rows ELSE files[n]]

\* no call of save_checklist was made
ExportIdle == exporter = [clock |-> 0, files |-> <<>>, calls |-> <<>>, session |-> "running"]

(***************************************************************************)
(* main.py before the interactive loop (lines 69-110): the knowledge       *)
(* sources are fetched and loaded one after the other.  startup.sources    *)
(* says what each source is like when main() starts; startup.loaded says   *)
(* what main() holds after the step that loads it: "data", "empty" (the    *)
(* empty list or dict) or "unset".                                         *)
(***************************************************************************)
\* what a call of fetch_json_data (data_fetchers.py) can do for a source: it
\* returns the document, returns a falsy value, or raises
FetchOutcomes == {"data", "none", "raise"}

\* the sources main() may find when it starts
SourceStates ==
    [catalog : FetchOutcomes, excel : {"data", "raise"}, baseline : FetchOutcomes,
     assessment : FetchOutcomes, cci : {"present", "missing", "unreadable"},
     stigs : {"present", "missing"}]

\* every source is there and was loaded
AllLoaded ==
    [catalog |-> "data", baseline |-> "data", assessment |-> "data", cci |-> "data", stigs |-> "data"]

\* main() has loaded every source and stands in the interactive loop
StartupIdle ==
    startup = [pc |-> "serving",
               sources |-> [catalog |-> "data", excel |-> "data", baseline |-> "data",
                            assessment |-> "data", cci |-> "present", stigs |-> "present"],
               loaded |-> AllLoaded]

\* main.py lines 70-72: the catalog, from the JSON document or else from the
\* Excel file
FetchCatalog ==
    /\ startup.pc = "fetch_catalog"
    /\ startup' =
          IF startup.sources.catalog = "data"
             \/ (startup.sources.catalog = "none" /\ startup.sources.excel = "data")
          THEN [startup EXCEPT !.pc = "fetch_baseline", !.loaded.catalog = "data"]
          ELSE [startup EXCEPT !.pc = "crashed"]
    /\ UNCHANGED <<pc, query, generate_checklist, retrieved_docs, result, prompt_result, calls,
                   typed, unknown_queries, turns, n_in, n_out, n_pc, extractor, exporter, loader>>

\* main.py lines 74-76: a falsy document gives the empty list
FetchBaseline ==
    /\ startup.pc = "fetch_baseline"
    /\ startup' =
          IF startup.sources.baseline = "raise" THEN [startup EXCEPT !.pc = "crashed"]
          ELSE [startup EXCEPT !.pc = "fetch_assessment",
                               !.loaded.baseline = IF startup.sources.baseline = "data"
                                                   THEN "data" ELSE "empty"]
    /\ UNCHANGED <<pc, query, generate_checklist, retrieved_docs, result, prompt_result, calls,
                   typed, unknown_queries, turns, n_in, n_out, n_pc, extractor, exporter, loader>>

\* main.py lines 78-80: a falsy document gives the empty dict
FetchAssessment ==
    /\ startup.pc = "fetch_assessment"
    /\ startup' =
          IF startup.sources.assessment = "raise" THEN [startup EXCEPT !.pc = "crashed"]
          ELSE [startup EXCEPT !.pc = "build_store",
                               !.loaded.assessment = IF startup.sources.assessment = "data"
                                                     THEN "data" ELSE "empty"]
    /\ UNCHANGED <<pc, query, generate_checklist, retrieved_docs, result, prompt_result, calls,
                   typed, unknown_queries, turns, n_in, n_out, n_pc, extractor, exporter, loader>>

\* main.py lines 83-92
BuildVectorStore ==
    /\ startup.pc = "build_store"
    /\ startup' = [startup EXCEPT !.pc = "load_cci"]
    /\ UNCHANGED <<pc, query, generate_checklist, retrieved_docs, result, prompt_result, calls,
                   typed, unknown_queries, turns, n_in, n_out, n_pc, extractor, exporter, loader>>

\* main.py lines 95-96 and load_cci_mapping: a missing file gives the empty
\* dict (parsers.py lines 117-118); ET.parse raises for an unreadable one
LoadCci ==
    /\ startup.pc = "load_cci"
    /\ startup' =
          IF startup.sources.cci = "unreadable" THEN [startup EXCEPT !.pc = "crashed"]
          ELSE [startup EXCEPT !.pc = "load_stigs",
                               !.loaded.cci = IF startup.sources.cci = "present"
                                              THEN "data" ELSE "empty"]
    /\ UNCHANGED <<pc, query, generate_checklist, retrieved_docs, result, prompt_result, calls,
                   typed, unknown_queries, turns, n_in, n_out, n_pc, extractor, exporter, loader>>

\* main.py lines 98-100 and load_stig_data: a missing folder is printed and
\* gives the empty dict and list (parsers.py lines 135-137)
LoadStigs ==
    /\ startup.pc = "load_stigs"
    /\ startup' = [startup EXCEPT !.pc = "welcome",
                                  !.loaded.stigs = IF startup.sources.stigs = "present"
                                                   THEN "data" ELSE "empty"]
    /\ UNCHANGED <<pc, query, generate_checklist, retrieved_docs, result, prompt_result, calls,
                   typed, unknown_queries, turns, n_in, n_out, n_pc, extractor, exporter, loader>>

\* main.py lines 102-113: the indexes, the welcome message, the loop
Welcome ==
    /\ startup.pc = "welcome"
    /\ startup' = [startup EXCEPT !.pc = "serving"]
    /\ UNCHANGED <<pc, query, generate_checklist, retrieved_docs, result, prompt_result, calls,
                   typed, unknown_queries, turns, n_in, n_out, n_pc, extractor, exporter, loader>>

(***************************************************************************)
(* parsers.load_stig_data (lines 131-195): the files of the STIG folder,   *)
(* one pass of the loop per file.  A rule-set document is what ET.parse    *)
(* gives for it: whether it is well-formed, its title element and its Vuln *)
(* elements.                                                               *)
(***************************************************************************)
\* what find() returns: None, or an element with its text and the number of
\* its child elements
NoElement == [present |-> FALSE, text |-> "", children |-> 0]

\* an element that holds text only
Leaf(text) == [present |-> TRUE, text |-> text, children |-> 0]

\* an element that holds text and a child element
Nested(text) == [present |-> TRUE, text |-> text, children |-> 1]

\* bool(element), line 165 under Python 3.12 (setup.py): None is false, and
\* an element is true only when it has child elements
Truthy(element) == element.present /\ element.children > 0

\* lines 174-179
matched_controls(vuln) == {cci_to_nist(id) : id \in {x \in Range(vuln.cci_refs) : CciMapped(x)}}

\* lines 168-171 and 184-189: the recommendation of a Vuln element
RuleOf(vuln) ==
    [rule_id |-> vuln.vuln_num.text, title |-> vuln.vuln_title.text,
     severity |-> IF vuln.severity.present THEN vuln.severity.text ELSE "medium",
     fix |-> vuln.fixtext.text]

\* lines 159-166: the Vuln elements line 165 lets pass
KeptVulns(vulns) ==
    SelectSeq(vulns, LAMBDA v : Truthy(v.vuln_num) /\ Truthy(v.vuln_title) /\ Truthy(v.fixtext))

\* lines 181-189: recommendations[control], in the order of the document
ControlRules(kept, control) ==
    [i \in 1..Len(SelectSeq(kept, LAMBDA v : control \in matched_controls(v))) |->
        RuleOf(SelectSeq(kept, LAMBDA v : control \in matched_controls(v))[i])]

\* lines 158-189: recommendations of a document, kept = KeptVulns of it
RecommendationsOf(kept) ==
    [control \in UNION {matched_controls(kept[i]) : i \in 1..Len(kept)} |->
        ControlRules(kept, control)]

\* lines 148-155
stig_info(doc) ==
    [file |-> doc.file,
     title |-> IF doc.title.present THEN doc.title.text ELSE "Unknown STIG",
     technology |-> IF doc.title.present THEN doc.title.text ELSE "Unknown"]

\* the loop ends at the first document that fails to parse
AfterParseErrorStop(l, doc) ==
    [l EXCEPT !.pc = "done", !.printed = Append(l.printed, doc.file)]

\* lines 192-193: the error is printed and the loop goes on
AfterParseError(l, doc) ==
    [l EXCEPT !.next = l.next + 1, !.printed = Append(l.printed, doc.file)]

\* lines 144-191: a document that parses
AfterParse(l, doc) ==
    [l EXCEPT !.next = l.next + 1,
              !.available_stigs = Append(l.available_stigs, stig_info(doc)),
              !.all_recommendations =
                  [t \in DOMAIN l.all_recommendations \cup {stig_info(doc).technology} |->
                      IF t = stig_info(doc).technology
                      THEN RecommendationsOf(KeptVulns(doc.vulns))
                      ELSE l.all_recommendations[t]]]

\* lines 132-133
NothingLoaded == [t \in {} |-> <<>>]

\* load_stig_data is not running
LoadIdle ==
    loader = [pc |-> "idle", folder |-> <<>>, next |-> 1,
              all_recommendations |-> NothingLoaded, available_stigs |-> <<>>, printed |-> <<>>]

\* lines 139-141: a file that is not an .xml file
SkipFile ==
    /\ loader.pc = "loop" /\ loader.next <= Len(loader.folder)
    /\ ~EndsWith(loader.folder[loader.next].file, ".xml")
    /\ loader' = [loader EXCEPT !.next = loader.next + 1]
    /\ UNCHANGED <<pc, query, generate_checklist, retrieved_docs, result, prompt_result, calls,
                   typed, unknown_queries, turns, n_in, n_out, n_pc, extractor, exporter, startup>>

\* lines 139-193: an .xml file
LoadFile ==
    /\ loader.pc = "loop" /\ loader.next <= Len(loader.folder)
    /\ EndsWith(loader.folder[loader.next].file, ".xml")
    /\ loader' = IF loader.folder[loader.next].well_formed
                 THEN AfterParse(loader, loader.folder[loader.next])
                 ELSE AfterParseError(loader, loader.folder[loader.next])
    /\ UNCHANGED <<pc, query, generate_checklist, retrieved_docs, result, prompt_result, calls,
                   typed, unknown_queries, turns, n_in, n_out, n_pc, extractor, exporter, startup>>

\* line 195
LoadReturn ==
    /\ loader.pc = "loop" /\ loader.next > Len(loader.folder)
    /\ loader' = [loader EXCEPT !.pc = "done"]
    /\ UNCHANGED <<pc, query, generate_checklist, retrieved_docs, result, prompt_result, calls,
                   typed, unknown_queries, turns, n_in, n_out, n_pc, extractor, exporter, startup>>

(***************************************************************************)
(* main.py: the unknown-query log and the interactive loop.                *)
(***************************************************************************)
\* the query is appended whether or not the list holds it
SaveAlways(log, q) == Append(log, q)

\* save_unknown_query(query) applied to the stored list
save_unknown_query(log, q) == IF q \notin Range(log) THEN Append(log, q) ELSE log

\* line 162: the response asks for clarification
NeedsClarification(text) ==
    Contains(text, "Multiple STIG technologies available") \/ Contains(text, ClarificationMarker)

\* line 166: the line starts, after strip(), with a digit and a "."
IsNumberedLine(line) == IsDigit(Char(Strip(line), 1)) /\ Char(Strip(line), 2) = "."

\* lines 166-168, from the lines of the prompt
CountOptions(lines) ==
    IF Cardinality({i \in 1..Len(lines) : IsNumberedLine(lines[i])}) = 0
    THEN Cardinality({i \in 1..Len(lines) : Contains(lines[i], " - Title:")})
    ELSE Cardinality({i \in 1..Len(lines) : IsNumberedLine(lines[i])})

\* lines 163-168: the number of options the prompt of main() offers
num_options(text) == CountOptions(SplitOn(ReplaceAll(text, "\n" \o ClarificationMarker, ""), "\n"))

\* line 182, lowered = response.lower()
IndicatesUnknownOf(lowered, docs) ==
    \/ Contains(lowered, "not found")
    \/ Contains(lowered, "no specific")
    \/ Len(docs) = 0

\* line 182: the response, or the retrieval, shows no coverage
IndicatesUnknown(text, docs) == IndicatesUnknownOf(Lower(text), docs)

NoResult == Returned("", <<>>)

\* what the user may enter at line 115
DisambiguationQueries ==
    {"implement AC-2" \o t : t \in {"", " on windows", " on ios", " on vmware", " on splunk", " on solaris"}}
    \cup {"implement AC-2" \o t \o " " \o MarkerPhrase \o d :
             t \in {"", " on splunk"}, d \in {"0", "6"}}

CatalogQueries ==
    {h \o c \o " on splunk" :
        h \in {"implement", "Assess"},
        c \in {"", " ZZ-9", " AC-2 ZZ-9", " ZZ-9 AC-2", " AU-3 ZZ-9", " au-3"}}
    \cup {"describe AC-2 on splunk", "implement on solaris"}

LookupQueries ==
    {"What is CCI-000130?", "What is CCI-000366?", "What is CCI-999999?",
     "What is CCI000135?", "What is CCI - 001234?",
     "Compare CCI-999999 and CCI-000130", "audit CCI-000130 on windows",
     "What is CCI-000130 " \o MarkerPhrase \o "0",
     "List CCI mappings for AU-3", "show cci mappings for zz-9 and more"}

Queries == DisambiguationQueries \cup CatalogQueries \cup LookupQueries

\* what the user may enter at the technology prompt (line 170)
ChoiceInputs == {IntToStr(n) : n \in 0..MaxChoice} \cup {"x", ""}

\* the queries main() passes to generate_response: the entered one (line 155)
\* and the one with the marker (lines 174-175)
PassedQueries ==
    {Strip(text) : text \in Queries}
    \cup {Strip(text) \o " " \o MarkerPhrase \o Strip(c) :
             text \in Queries, c \in {d \in ChoiceInputs : IsDigitStr(Strip(d))}}

\* generate_response is a function of its arguments: what it returns for
\* each query, list of documents and flag main() can pass to it
Responses ==
    [q \in PassedQueries, docs \in RetrievalResults, gen_checklist \in BOOLEAN |->
        generate_response(q, docs, gen_checklist)] @@ <<>>

\* the texts it returns
ResponseTexts == {Responses[a].text : a \in DOMAIN Responses}

\* line 162, for each text generate_response returns
Clarifying == [text \in ResponseTexts |-> NeedsClarification(text)] @@ <<>>

\* line 182, for each text generate_response returns
ShowsUnknown ==
    [text \in ResponseTexts, docs \in RetrievalResults |-> IndicatesUnknown(text, docs)] @@ <<>>

\* lines 181-186: the end of a turn whose last generate_response call gave res
FinishTurn(q, res, docs) ==
    /\ unknown_queries' = IF ShowsUnknown[res.text, docs]
                          THEN save_unknown_query(unknown_queries, q)
                          ELSE unknown_queries
    /\ pc' = "query"

\* lines 155-186 up to the technology prompt, res = what the first
\* generate_response call gave
AfterFirstCall(q, gen_checklist, docs, res) ==
    /\ retrieved_docs' = docs
    /\ generate_checklist' = gen_checklist
    /\ result' = res
    /\ calls' = 1
    /\ IF res.raised # ""
       THEN pc' = "crashed" /\ UNCHANGED <<unknown_queries, prompt_result>>
       ELSE IF Clarifying[res.text]
       THEN pc' = "choice" /\ prompt_result' = res /\ UNCHANGED unknown_queries
       ELSE FinishTurn(q, res, docs) /\ prompt_result' = NoResult

\* lines 151-186 up to the technology prompt: retrieval, the first
\* generate_response call, and what follows it
Process(q, gen_checklist) ==
    \E docs \in RetrievalResults :
        AfterFirstCall(q, gen_checklist, docs, Responses[q, docs, gen_checklist])

\* lines 175-186, res = what the second generate_response call gave
AfterSecondCall(q, res) ==
    /\ query' = q
    /\ result' = res
    /\ calls' = calls + 1
    /\ IF res.raised # ""
       THEN pc' = "crashed" /\ UNCHANGED unknown_queries
       ELSE FinishTurn(q, res, retrieved_docs)

\* lines 174-186: the query with the marker, and the second call
Clarify(q) == AfterSecondCall(q, Responses[q, retrieved_docs, generate_checklist])

Commands == {"help", "show unknown", "", "Help"}

\* lines 115-117: the user ends the session
Exit ==
    /\ pc = "query"
    /\ pc' = "exited"
    /\ UNCHANGED <<query, generate_checklist, retrieved_docs, result, prompt_result, calls,
                   typed, unknown_queries, turns, n_in, n_out, n_pc,
                   extractor, exporter, startup, loader>>

\* lines 118-139: help, show unknown and the empty line print and go on
Command(text) ==
    /\ pc = "query"
    /\ Lower(Strip(text)) \in {"help", "show unknown", ""}
    /\ UNCHANGED vars

\* lines 113-159 (and on to 186 when no checklist is offered and no
\* clarification is needed): the user enters a query
Ask(text) ==
    /\ pc = "query"
    /\ turns < MaxTurns
    /\ Lower(Strip(text)) \notin {"exit", "help", "show unknown", ""}
    /\ query' = Strip(text)
    /\ typed' = Strip(text)
    /\ turns' = turns + 1
    /\ IF Contains(Lower(Strip(text)), "assess") \/ Contains(Lower(Strip(text)), "audit")
       THEN /\ pc' = "checklist"
            /\ generate_checklist' = FALSE
            /\ calls' = 0
            /\ result' = NoResult
            /\ prompt_result' = NoResult
            /\ UNCHANGED <<retrieved_docs, unknown_queries>>
       ELSE Process(Strip(text), FALSE)
    /\ UNCHANGED <<n_in, n_out, n_pc,
                   extractor, exporter, startup, loader>>

\* lines 144-159 (and on): the answer to "Generate an assessment checklist?"
AnswerChecklist(answer) ==
    /\ pc = "checklist"
    /\ IF Lower(Strip(answer)) \in {"y", "n"}
       THEN Process(query, Lower(Strip(answer)) = "y")
       ELSE UNCHANGED <<pc, generate_checklist, retrieved_docs, result, prompt_result, calls,
                        unknown_queries>>
    /\ UNCHANGED <<query, typed, turns, n_in, n_out, n_pc,
                   extractor, exporter, startup, loader>>

\* lines 169-186: the answer to the technology prompt
Choose(tech_choice) ==
    /\ pc = "choice"
    /\ IF IsDigitStr(Strip(tech_choice)) /\ StrToInt(Strip(tech_choice)) <= num_options(result.text)
       THEN Clarify(query \o " " \o MarkerPhrase \o Strip(tech_choice))
       ELSE UNCHANGED <<pc, query, result, calls, unknown_queries>>
    /\ UNCHANGED <<generate_checklist, retrieved_docs, prompt_result, typed, turns,
                   n_in, n_out, n_pc,
                   extractor, exporter, startup, loader>>

\* load_unknown_queries (lines 47-52): what knowledge/unknown_queries.pkl holds
\* when the session starts: nothing, or what earlier sessions saved
PersistedLogs == {<<>>, <<"implement ZZ-9 on splunk", "how are backups encrypted">>}

InitSession ==
    /\ pc = "query"
    /\ query = ""
    /\ generate_checklist = FALSE
    /\ retrieved_docs = <<>>
    /\ result = NoResult
    /\ prompt_result = NoResult
    /\ calls = 0
    /\ typed = ""
    /\ unknown_queries \in PersistedLogs
    /\ turns = 0

Init == InitSession /\ NormIdle /\ ExtractIdle /\ ExportIdle /\ StartupIdle /\ LoadIdle

Next ==
    \/ Exit
    \/ \E text \in Commands : Command(text)
    \/ \E text \in Queries : Ask(text)
    \/ \E answer \in {"y", "n", "Y", "maybe"} : AnswerChecklist(answer)
    \/ \E tech_choice \in ChoiceInputs : Choose(tech_choice)

Spec == Init /\ [][Next]_vars

(***************************************************************************)
(* normalize_control_id applied to a control-id string, and again to its   *)
(* result.                                                                 *)
(***************************************************************************)
\* no session is running
SessionIdle ==
    /\ pc = "exited"
    /\ query = ""
    /\ generate_checklist = FALSE
    /\ retrieved_docs = <<>>
    /\ result = NoResult
    /\ prompt_result = NoResult
    /\ calls = 0
    /\ typed = ""
    /\ unknown_queries = <<>>
    /\ turns = 0

InitNormalize ==
    /\ SessionIdle /\ ExtractIdle /\ ExportIdle /\ StartupIdle /\ LoadIdle
    /\ n_in \in NormInputs
    /\ n_out = n_in
    /\ n_pc = 0

Normalize ==
    /\ n_pc < 2
    /\ n_out' = normalize_control_id(n_out)
    /\ n_pc' = n_pc + 1
    /\ UNCHANGED <<n_in, pc, query, generate_checklist, retrieved_docs, result, prompt_result,
                   calls, typed, unknown_queries, turns, extractor, exporter, startup, loader>>

NextNormalize == Normalize

SpecNormalize == InitNormalize /\ [][NextNormalize]_vars

(***************************************************************************)
(* extract_actionable_steps applied to a description: every text of at     *)
(* most MaxSentences sentences of a pool that holds verb-led sentences of  *)
(* three and of two words, sentences led by other words, and the           *)
(* abbreviations the boundary pattern looks for; the text of blanks; and a *)
(* text of eleven verb-led sentences.                                      *)
(***************************************************************************)
SentencePool ==
    {"Verify the audit logs.", "check logs.", "The system e.g. logs events",
     "review;  the plan?", "Dr. Who signs."}

RECURSIVE Descriptions(_)
Descriptions(n) ==
    IF n = 0 THEN {""}
    ELSE Descriptions(n - 1)
         \cup {d \o (IF d = "" THEN "" ELSE " ") \o x : d \in Descriptions(n - 1), x \in SentencePool}

ElevenSteps == Join(" ", [i \in 1..11 |-> "Inspect the item " \o IntToStr(i) \o "."])

ExtractInputs == Descriptions(MaxSentences) \cup {"  ", ElevenSteps}

InitExtract ==
    /\ SessionIdle /\ NormIdle /\ ExportIdle /\ StartupIdle /\ LoadIdle
    /\ extractor \in {[pc |-> "called", description |-> d, raised |-> "", steps |-> <<>>] :
                          d \in ExtractInputs}

\* the call returns or raises
Extract ==
    /\ extractor.pc = "called"
    /\ extractor' = [pc |-> "done", description |-> extractor.description,
                     raised |-> extract_actionable_steps(extractor.description).raised,
                     steps |-> extract_actionable_steps(extractor.description).steps]
    /\ UNCHANGED <<pc, query, generate_checklist, retrieved_docs, result, prompt_result, calls,
                   typed, unknown_queries, turns, n_in, n_out, n_pc, exporter, startup, loader>>

NextExtract == Extract

SpecExtract == InitExtract /\ [][NextExtract]_vars

(***************************************************************************)
(* save_checklist called, as at line 391, while the clock of               *)
(* datetime.now() runs: for a control, its steps and the recommendations   *)
(* of the selected technologies.  open() may fail (OSError); neither       *)
(* save_checklist nor its callers, generate_response (lines 384-392) and   *)
(* main() (lines 155-159), handle an exception, so that the failure ends   *)
(* the session.                                                            *)
(***************************************************************************)
StepInputs ==
    {<<>>,
     <<"Verify the audit logs.", "Review [assignment: organization-defined frequency] accounts.">>}

TechInputs == {<<>>, <<StigTitle(2)>>, <<StigTitle(9), StigTitle(1)>>}

InitChecklist == SessionIdle /\ NormIdle /\ ExtractIdle /\ ExportIdle /\ StartupIdle /\ LoadIdle

\* a second passes
Tick ==
    /\ exporter.session = "running"
    /\ exporter.clock < MaxClock
    /\ exporter' = [exporter EXCEPT !.clock = @ + 1]
    /\ UNCHANGED <<pc, query, generate_checklist, retrieved_docs, result, prompt_result, calls,
                   typed, unknown_queries, turns, n_in, n_out, n_pc, extractor, startup, loader>>

\* save_checklist(control_id, steps, stig_recs); fails: open() raises
SaveChecklist(control_id, steps, selected_techs, fails) ==
    /\ exporter.session = "running"
    /\ Len(exporter.calls) < MaxCalls
    /\ exporter' =
          IF fails
          THEN [exporter EXCEPT
                  !.calls = Append(@, [name |-> ChecklistFilename(control_id, exporter.clock),
                                       control_id |-> control_id, steps |-> steps,
                                       selected_techs |-> selected_techs,
                                       raised |-> "OSError"]),
                  !.session = "crashed"]
          ELSE [exporter EXCEPT
                  !.calls = Append(@, [name |-> ChecklistFilename(control_id, exporter.clock),
                                       control_id |-> control_id, steps |-> steps,
                                       selected_techs |-> selected_techs,
                                       raised |-> ""]),
                  !.files = WriteFile(@, ChecklistFilename(control_id, exporter.clock),
                                      ChecklistRows(control_id, steps,
                                                    stig_recs(selected_techs, control_id)))]
    /\ UNCHANGED <<pc, query, generate_checklist, retrieved_docs, result, prompt_result, calls,
                   typed, unknown_queries, turns, n_in, n_out, n_pc, extractor, startup, loader>>

NextChecklist ==
    \/ Tick
    \/ \E control_id \in {"AC-2", "AU-3"}, steps \in StepInputs, selected_techs \in TechInputs,
          fails \in BOOLEAN :
           SaveChecklist(control_id, steps, selected_techs, fails)

SpecChecklist == InitChecklist /\ [][NextChecklist]_vars

(***************************************************************************)
(* The start of main() for every combination of sources.                   *)
(***************************************************************************)
InitStartup ==
    /\ SessionIdle /\ NormIdle /\ ExtractIdle /\ ExportIdle /\ LoadIdle
    /\ startup \in {[pc |-> "fetch_catalog", sources |-> src,
                      loaded |-> [catalog |-> "unset", baseline |-> "unset",
                                  assessment |-> "unset", cci |-> "unset", stigs |-> "unset"]] :
                         src \in SourceStates}

NextStartup ==
    \/ FetchCatalog
    \/ FetchBaseline
    \/ FetchAssessment
    \/ BuildVectorStore
    \/ LoadCci
    \/ LoadStigs
    \/ Welcome

SpecStartup == InitStartup /\ [][NextStartup]_vars

(***************************************************************************)
(* load_stig_data applied to a folder of files.                            *)
(***************************************************************************)
\* a Vuln element whose elements hold text only, as a rule-set document has
\* them
LeafVuln(num, title, ccis) ==
    [vuln_num |-> Leaf(num), vuln_title |-> Leaf(title), severity |-> Leaf("high"),
     fixtext |-> Leaf("Fix: " \o title \o "."), cci_refs |-> ccis]

\* a Vuln element whose elements hold a child element besides their text
NestedVuln(num, title, severity, fixtext, ccis) ==
    [vuln_num |-> Nested(num), vuln_title |-> Nested(title), severity |-> severity,
     fixtext |-> fixtext, cci_refs |-> ccis]

\* the files a folder may hold
FilePool ==
    {[file |-> "windows.xml", well_formed |-> TRUE, title |-> Leaf("Windows Server STIG"),
      vulns |-> <<LeafVuln("V-1", "Record event type", <<"CCI-000130">>)>>],
     [file |-> "broken.xml", well_formed |-> FALSE, title |-> NoElement, vulns |-> <<>>],
     [file |-> "splunk.xml", well_formed |-> TRUE, title |-> Leaf("Splunk Enterprise STIG"),
      vulns |-> <<NestedVuln("V-2", "Disable unused accounts", Leaf("low"), Nested("Fix: Disable."),
                             <<"CCI-001234", "CCI-000130">>),
                  NestedVuln("V-3", "Set a banner", Leaf("low"), Nested("Fix: Set."), <<"CCI-999999">>),
                  NestedVuln("V-4", "Lock the console", Leaf("low"), NoElement, <<"CCI-000130">>),
                  NestedVuln("V-5", "Record event time", NoElement, Nested("Fix: Sync."),
                             <<"CCI-000135">>)>>],
     [file |-> "untitled.xml", well_formed |-> TRUE, title |-> NoElement, vulns |-> <<>>],
     [file |-> "notes.txt", well_formed |-> FALSE, title |-> NoElement, vulns |-> <<>>]}

RECURSIVE Folders(_)
\* what os.listdir may return: up to n different files, in any order
Folders(n) ==
    IF n = 0 THEN {<<>>}
    ELSE Folders(n - 1)
         \cup UNION {{Append(f, d) : d \in FilePool \ Range(f)} :
                        f \in {g \in Folders(n - 1) : Len(g) = n - 1}}

InitLoad ==
    /\ SessionIdle /\ NormIdle /\ ExtractIdle /\ ExportIdle /\ StartupIdle
    /\ loader \in {[pc |-> "loop", folder |-> f, next |-> 1,
                    all_recommendations |-> NothingLoaded, available_stigs |-> <<>>,
                    printed |-> <<>>] :
                      f \in Folders(MaxFiles)}

NextLoad ==
    \/ SkipFile
    \/ LoadFile
    \/ LoadReturn

SpecLoad == InitLoad /\ [][NextLoad]_vars

(***************************************************************************)
(* What the properties below speak of.                                     *)
(***************************************************************************)
\* original_lower of the query the user entered
TypedLower == Lower(original_query(typed))

\* lines 285-312: the candidate rule sets technology filtering leaves for
\* the query the user entered
Candidates == filtered_stigs(tech_keywords(TypedLower))

\* the first call for the entered query came as far as technology filtering:
\* it was neither a clarification turn nor a lookup
FilteringReached ==
    /\ calls >= 1
    /\ ~HasTechIndex(typed)
    /\ CciMatch(TypedLower) = ""
    /\ ReverseMatch(TypedLower) = ""

\* the number of candidates a prompt presents for the entered query
ShownCount == IF Len(Candidates) < ShownMax THEN Len(Candidates) ELSE ShownMax

\* the line of a prompt that presents technology tech with number k
NumberedOption(k, tech) == "\n" \o IntToStr(k) \o ". " \o tech \o " - "

\* the prompt text reports the number of candidates cands and presents the
\* first ShownMax of them, numbered in the order they were loaded
PresentsTop(text, cands) ==
    /\ Contains(text, "(" \o IntToStr(Len(cands)) \o " total)")
    /\ num_options(text) = (IF Len(cands) < ShownMax THEN Len(cands) ELSE ShownMax)
    /\ \A k \in 1..(IF Len(cands) < ShownMax THEN Len(cands) ELSE ShownMax) :
           Contains(text, NumberedOption(k, available_stigs[
               MinOrZero({j \in 1..MaxStigs :
                   Cardinality({i \in 1..j : available_stigs[i] \in Range(cands)}) = k})
               ].technology))

\* the text holds no part of a per-control section
NoControlSection(text) ==
    /\ ~Contains(text, "### ")
    /\ ~Contains(text, "   - Purpose:")
    /\ ~Contains(text, "   - Status:")
    /\ ~Contains(text, "STIG Guidance for")

(***************************************************************************)
(* C10: normalize_control_id is idempotent: applying it to its own result  *)
(* gives that result again, for every control-id string; and it maps       *)
(* "ac-7 (a)" to "AC-7 (A)".                                                *)
(***************************************************************************)
C10_NormalizeIdempotent ==
    /\ n_pc = 2 => n_out = normalize_control_id(n_in)
    /\ (n_pc >= 1 /\ n_in = "ac-7 (a)") => n_out = "AC-7 (A)"

\* the example id was normalized twice
C10_Witness == n_pc = 2 /\ n_in = "ac-7 (a)" /\ n_out = "AC-7 (A)"

(***************************************************************************)
(* C1: when technology filtering leaves 2 or 3 candidates on a             *)
(* non-clarification turn, the call returns a final response without the   *)
(* clarification marker, lists every candidate in the auto-selection list  *)
(* and selects all of them.                                                *)
(***************************************************************************)
C1_AutoSelectsAll ==
    (calls = 1 /\ FilteringReached /\ Len(Candidates) \in 2..AutoSelectMax)
        => /\ result.raised = ""
           /\ ~Contains(result.text, ClarificationMarker)
           /\ Contains(result.text, "Auto-selected")
           /\ \A i \in 1..Len(Candidates) :
                  Contains(result.text, "- " \o Candidates[i].technology \o " (")
           /\ result.selected_techs = AllTechnologies(Candidates)

(***************************************************************************)
(* C2: when technology filtering leaves N >= 4 candidates on a             *)
(* non-clarification turn, the response carries the clarification marker,  *)
(* presents exactly the first min(N, 5) candidates, numbered from 1 in     *)
(* loaded order, reports the total N and holds no per-control section.     *)
(***************************************************************************)
C2_PromptShowsTopFive ==
    (calls = 1 /\ FilteringReached /\ Len(Candidates) > AutoSelectMax)
        => /\ result.raised = ""
           /\ EndsWith(result.text, "\n" \o ClarificationMarker)
           /\ PresentsTop(result.text, Candidates)
           /\ NoControlSection(result.text)
           /\ result.selected_techs = <<>>

\* a prompt for more candidates than a prompt presents
C2_Witness ==
    /\ pc = "choice" /\ FilteringReached /\ Len(Candidates) > ShownMax
    /\ Contains(result.text, ClarificationMarker)

(***************************************************************************)
(* C3: index 0 on the clarification turn selects exactly the technologies  *)
(* the prompt of that round presented, in the order it presented them.     *)
(***************************************************************************)
C3_IndexZeroSelectsShown ==
    (calls = 2 /\ SelectedIdx(query) = 0)
        => /\ Len(result.selected_techs) = num_options(prompt_result.text)
           /\ \A k \in 1..Len(result.selected_techs) :
                  Contains(prompt_result.text, NumberedOption(k, result.selected_techs[k]))

(***************************************************************************)
(* C4: after a prompt, index k >= 1 entered for the same original query    *)
(* selects exactly one technology, the one the prompt presented with       *)
(* number k.                                                               *)
(***************************************************************************)
C4_IndexSelectsDisplayed ==
    (calls = 2 /\ SelectedIdx(query) >= 1)
        => /\ original_query(query) = typed
           /\ SelectedIdx(query) <= num_options(prompt_result.text)
           /\ Len(result.selected_techs) = 1
           /\ Contains(prompt_result.text,
                       NumberedOption(SelectedIdx(query), result.selected_techs[1]))

\* the last presented number was entered and the turn completed
C4_Witness ==
    /\ calls = 2 /\ pc = "query" /\ result.raised = ""
    /\ SelectedIdx(query) = ShownMax
    /\ Contains(result.text, "STIG Guidance for " \o result.selected_techs[1])

(***************************************************************************)
(* C5: on a clarification turn an index above the number of presented      *)
(* candidates is not accepted: the invalid-selection error is the whole    *)
(* response and nothing is selected.                                       *)
(***************************************************************************)
C5_OnlyShownIndexesAccepted ==
    (calls >= 1 /\ HasTechIndex(query) /\ SelectedIdx(query) > ShownCount)
        => /\ result.raised = ""
           /\ result.text = Fore_RED \o "Invalid technology index: "
                            \o IntToStr(SelectedIdx(query)) \o Style_RESET_ALL
           /\ result.selected_techs = <<>>

(***************************************************************************)
(* C6: a query is resolved with at most one clarification round trip: the  *)
(* response to a query that carries a technology index never asks for      *)
(* clarification, the technology prompt is only reached after the first    *)
(* call, and generate_response is called at most twice for one query.      *)
(***************************************************************************)
C6_AtMostOneRoundTrip ==
    /\ calls <= 2
    /\ pc = "choice" => calls = 1
    /\ (calls = 2 \/ (calls = 1 /\ HasTechIndex(query)))
           => (pc # "choice" /\ ~NeedsClarification(result.text))

\* a turn that took the round trip and completed
C6_Witness == calls = 2 /\ pc = "query" /\ result.raised = "" /\ NeedsClarification(prompt_result.text)

(***************************************************************************)
(* C7: when a call assembles the final response, every resolved control id *)
(* that the catalog lacks gets the not-in-catalog status and nothing else, *)
(* and every other resolved control id gets its section.                   *)
(***************************************************************************)
\* original_lower of the query of the last call
QueryLower == Lower(original_query(query))

\* the last call of a finished turn went on to the final response
\* (line 336): a clarification turn with an index it accepts, or a new query
\* that is no lookup and has at most AutoSelectMax candidates
FinalResponseEntered ==
    /\ calls >= 1
    /\ pc \in {"query", "crashed"}
    /\ IF HasTechIndex(query)
       THEN ClarificationSelection(filtered_stigs(tech_keywords(QueryLower)), SelectedIdx(query)).ok
       ELSE /\ CciMatch(QueryLower) = ""
            /\ ReverseMatch(QueryLower) = ""
            /\ Len(filtered_stigs(tech_keywords(QueryLower))) <= AutoSelectMax

\* the text from the section heading of control_id up to the next heading
SectionOf(text, control_id) ==
    SplitOnce(SplitOnce(text, Fore_YELLOW \o "1. " \o control_id)[2], Fore_YELLOW \o "1. ")[1]

\* control_ids of the last call
ResolvedIds == control_ids(QueryLower, retrieved_docs)

\* the response holds the section of the catalog control control_id
Processed(text, control_id) == Contains(text, Fore_YELLOW \o "1. " \o control_id \o " - ")

\* the response holds the not-in-catalog status for control_id and nothing
\* else in its section
OnlyStatus(text, control_id) ==
    /\ Contains(text, Fore_YELLOW \o "1. " \o control_id \o Style_RESET_ALL
                      \o "\n   - Status: Not found in NIST 800-53 Rev 5 catalog.")
    /\ ~Contains(SectionOf(text, control_id), "   - Purpose:")
    /\ ~Contains(SectionOf(text, control_id), "Assessment Steps:")
    /\ ~Contains(SectionOf(text, control_id), "Implementation Guidance:")
    /\ ~Contains(SectionOf(text, control_id), "STIG Guidance for")
    /\ ~Contains(SectionOf(text, control_id), "Checklist Saved:")

C7_AbsentControlOnlyStatus ==
    FinalResponseEntered
        => \A i \in 1..Len(ResolvedIds) :
               ~InCatalog(ResolvedIds[i])
                   => /\ result.raised = ""
                      /\ OnlyStatus(result.text, ResolvedIds[i])
                      /\ \A j \in 1..Len(ResolvedIds) :
                             InCatalog(ResolvedIds[j]) => Processed(result.text, ResolvedIds[j])

(***************************************************************************)
(* C8: a first-turn query that contains a cross-reference id with a        *)
(* mapping is answered by one call, without a technology prompt, and the   *)
(* response names the mapped control, with its title and description       *)
(* exactly when the control is in the catalog.                             *)
(***************************************************************************)
C8_CciLookupNamesControl ==
    \A i \in 1..Len(cci_items) :
        (calls >= 1 /\ Contains(Upper(typed), cci_items[i].cci))
            => /\ result.raised = ""
               /\ calls = 1
               /\ pc # "choice"
               /\ Contains(result.text, " maps to NIST " \o cci_items[i].nist)
               /\ InCatalog(cci_items[i].nist) <=> Contains(result.text, "- **Title:** ")
               /\ InCatalog(cci_items[i].nist) <=> Contains(result.text, "- **Description:** ")

(***************************************************************************)
(* C9: a query that holds a cross-reference id in any written variant      *)
(* (with a dash, with whitespace around the dash, without separator) is    *)
(* answered as an id lookup.                                               *)
(***************************************************************************)
\* text_processing.py lines 67-70: one of the three CCI_ID patterns
\* (CCI-\d{6}, CCI\s*-\s*\d{6}, CCI\d{6}) matches the text at position i
CciIdAt(s, i) ==
    /\ MatchAt(s, "CCI", i)
    /\ \/ DigitRun(s, i + 3) >= 6
       \/ /\ Char(s, i + 3 + SpaceRun(s, i + 3)) = "-"
          /\ DigitRun(s, i + 4 + SpaceRun(s, i + 3) + SpaceRun(s, i + 4 + SpaceRun(s, i + 3))) >= 6

C9_EveryVariantIsLookup ==
    (calls >= 1 /\ ~HasTechIndex(typed) /\ \E i \in 1..Len(typed) : CciIdAt(typed, i))
        => /\ result.raised = ""
           /\ StartsWith(result.text, Fore_CYAN \o "CCI Lookup:")
           /\ pc # "choice"

(***************************************************************************)
(* What the properties of extract_actionable_steps speak of.               *)
(***************************************************************************)
\* the sentences of the description the extractor was called with
Sentences == SentencesFrom(extractor.description, 1)

\* the first word of the sentence, lower-cased and with trailing
\* punctuation stripped, is one of the 13 verbs
LedByVerb(sentence) ==
    /\ SplitWords(sentence) # <<>>
    /\ RStripPunct(Lower(SplitWords(sentence)[1])) \in action_verbs

\* the text with its first character in upper case
FirstUpper(s) == UpperChar(Char(s, 1)) \o SubSeq(s, 2, Len(s))

\* the steps of the sentences led by a verb, whatever their length, in order
LedSteps(sentences) ==
    [i \in 1..Len(SelectSeq(sentences, LAMBDA x : LedByVerb(x)))
        |-> StepOf(Strip(SelectSeq(sentences, LAMBDA x : LedByVerb(x))[i]))]

(***************************************************************************)
(* C11: for every description in which no sentence is led by one of the    *)
(* verbs, extract_actionable_steps returns exactly one step, the first     *)
(* sentence of the description, capitalized and ending in "." or "?"; it   *)
(* does not return zero steps and does not raise.                          *)
(***************************************************************************)
C11_FallbackIsFirstSentence ==
    (extractor.pc = "done" /\ \A i \in 1..Len(Sentences) : ~LedByVerb(Sentences[i]))
    => /\ extractor.raised = ""
       /\ Len(extractor.steps) = 1
       /\ extractor.steps[1] = FirstUpper(Terminated(Strip(Sentences[1])))

(***************************************************************************)
(* C12: extract_actionable_steps returns, in the order of the description, *)
(* exactly the sentences led by one of the 13 verbs, whatever their        *)
(* length, cut to the first 10; it returns no other sentence when one is   *)
(* led by a verb, and never more than 10 steps.                            *)
(***************************************************************************)
C12_VerbLedSentencesInOrder ==
    extractor.pc = "done"
    => /\ Len(extractor.steps) <= 10
       /\ (\E i \in 1..Len(Sentences) : LedByVerb(Sentences[i]))
          => /\ extractor.raised = ""
             /\ extractor.steps = SubSeq(LedSteps(Sentences), 1,
                                         IF Len(LedSteps(Sentences)) < 10
                                         THEN Len(LedSteps(Sentences)) ELSE 10)

(***************************************************************************)
(* What the properties of save_checklist speak of.                         *)
(***************************************************************************)
\* call i wrote its file, and no later call wrote a file of the same name
WroteLast(i) ==
    /\ exporter.calls[i].raised = ""
    /\ \A j \in (i + 1)..Len(exporter.calls) :
          exporter.calls[j].raised # "" \/ exporter.calls[j].name # exporter.calls[i].name

RECURSIVE TotalRecs(_, _)
\* the number of recommendations the technologies hold for the control
TotalRecs(techs, control_id) ==
    IF techs = <<>> THEN 0
    ELSE Len(Recommendations(techs[1], control_id)) + TotalRecs(Tail(techs), control_id)

\* rows is the header row, then a row for each of the n_steps steps in
\* their order, then n_recs rows of recommendations
IsChecklistOf(rows, n_steps, n_recs) ==
    /\ Len(rows) = 1 + n_steps + n_recs
    /\ rows[1] = ChecklistHeader
    /\ \A k \in 1..n_steps :
          rows[1 + k][1] = "NIST 800-53"
          /\ rows[1 + k][3] = "Verify Compliance (" \o IntToStr(k) \o ")"
    /\ \A k \in 1..n_recs : StartsWith(rows[1 + n_steps + k][1], "STIG ")

C14_UniqueArtifacts ==
    \A i \in 1..Len(exporter.calls) : \A j \in 1..Len(exporter.calls) :
        (i < j /\ exporter.calls[i].raised = "" /\ exporter.calls[j].raised = "")
        => exporter.calls[i].name # exporter.calls[j].name

(***************************************************************************)
(* C15: a failure to write the checklist file is local: the call does not  *)
(* raise into generate_response, which goes on and returns its response,   *)
(* and the session goes on.                                                *)
(***************************************************************************)
C15_WriteFailureIsLocal ==
    /\ exporter.session = "running"
    /\ \A i \in 1..Len(exporter.calls) : exporter.calls[i].raised = ""

(***************************************************************************)
(* What the properties of the unknown-query log speak of.                  *)
(***************************************************************************)
\* no two entries of the list are equal
NoDuplicates(log) == \A i \in 1..Len(log) : \A j \in 1..Len(log) : log[i] = log[j] => i = j

\* the turn of the entered query is complete: its last call returned and
\* main() is back at the query prompt
TurnComplete == pc = "query" /\ calls >= 1 /\ result.raised = ""

(***************************************************************************)
(* C16: the unknown-query log never holds two equal entries and is         *)
(* append-only: a step never removes or reorders an entry, and it leaves   *)
(* the log as it is when the query of the turn is already in it.           *)
(***************************************************************************)
C16_LogAppendOnlyNoDuplicates ==
    /\ []NoDuplicates(unknown_queries)
    /\ [][/\ Len(unknown_queries') >= Len(unknown_queries)
          /\ SubSeq(unknown_queries', 1, Len(unknown_queries)) = unknown_queries
          /\ query' \in Range(unknown_queries) => unknown_queries' = unknown_queries]_vars

\* a turn ended with a response that shows no coverage for a query the log
\* of the earlier sessions already held, and the log is as it was
C16_Witness ==
    /\ TurnComplete
    /\ IndicatesUnknown(result.text, retrieved_docs)
    /\ query = "implement ZZ-9 on splunk"
    /\ unknown_queries = <<"implement ZZ-9 on splunk", "how are backups encrypted">>

(***************************************************************************)
(* C17: every entry appended to the unknown-query log is the query text    *)
(* exactly as the user entered it, also when the query went through a      *)
(* clarification round trip before it was recorded.                        *)
(***************************************************************************)
C17_LoggedTextIsRaw ==
    [][unknown_queries' # unknown_queries => unknown_queries' = Append(unknown_queries, typed')]_vars

(***************************************************************************)
(* C18: when the final response of a turn reports a control as not in the  *)
(* catalog or holds the no-information line, or retrieval returned no      *)
(* document for the query, the query the user entered is in the            *)
(* unknown-query log once the turn is complete.                            *)
(***************************************************************************)
C18_NoCoverageIsLogged ==
    (/\ TurnComplete
     /\ \/ Contains(result.text, "   - Status: Not found in NIST 800-53 Rev 5 catalog.")
        \/ Contains(result.text, "No specific information found for this query.")
        \/ Len(retrieved_docs) = 0)
    => typed \in Range(unknown_queries)

(***************************************************************************)
(* C19: when the final response of a call holds nothing beyond the header  *)
(* (no control id was resolved), whatever the number of technology         *)
(* candidates, zero included, the response holds the line "No specific     *)
(* information found for this query."                                      *)
(***************************************************************************)
C19_EmptyResponseSaysSo ==
    (FinalResponseEntered /\ result.raised = "" /\ ResolvedIds = <<>>)
    => Contains(result.text, "No specific information found for this query.")

(***************************************************************************)
(* C20: a knowledge source that is missing or unreadable when main()       *)
(* starts is fatal: main() never reaches the interactive loop with the     *)
(* catalog, the baseline, the assessment procedures, the cross-reference   *)
(* mapping or the rule sets silently empty.                                *)
(***************************************************************************)
C20_MissingSourceIsFatal == startup.pc = "serving" => startup.loaded = AllLoaded

(***************************************************************************)
(* What C21 and C25 speak of: the documents of the folder that parse, and  *)
(* the rules a document holds for a control.                               *)
(***************************************************************************)
\* the rule-set documents of the folder that parse, in the order of the loop
ParsedDocuments == SelectSeq(loader.folder, LAMBDA d : EndsWith(d.file, ".xml") /\ d.well_formed)

\* the rule-set documents of the folder that fail to parse
FailedDocuments == {d \in Range(loader.folder) : EndsWith(d.file, ".xml") /\ ~d.well_formed}

\* the Vuln element has a rule id, a title and fix text, and one of its
\* cross-reference ids is mapped to control
IsRuleFor(vuln, control) ==
    /\ vuln.vuln_num.present /\ vuln.vuln_title.present /\ vuln.fixtext.present
    /\ control \in matched_controls(vuln)

\* the recommendations the rules of a document give for a control, in
\* document order
RulesFor(doc, control) ==
    [i \in 1..Len(SelectSeq(doc.vulns, LAMBDA v : IsRuleFor(v, control))) |->
        RuleOf(SelectSeq(doc.vulns, LAMBDA v : IsRuleFor(v, control))[i])]

\* the controls the mapping maps to
MappedControls == {cci_items[i].nist : i \in 1..Len(cci_items)}

(***************************************************************************)
(* C21: when a rule-set document fails to parse, load_stig_data skips it:  *)
(* it gives no candidate rule set and no recommendations, every document   *)
(* that parses is loaded, in the order of the folder, and loading goes on  *)
(* to its end and returns.                                                 *)
(***************************************************************************)
C21_ParseFailureIsSkipped ==
    /\ loader.pc \in {"idle", "loop", "done"}
    /\ loader.pc = "done" =>
          /\ loader.next = Len(loader.folder) + 1
          /\ loader.available_stigs =
                 [i \in 1..Len(ParsedDocuments) |-> stig_info(ParsedDocuments[i])]
          /\ DOMAIN loader.all_recommendations =
                 {stig_info(ParsedDocuments[i]).technology : i \in 1..Len(ParsedDocuments)}
          /\ \A d \in FailedDocuments :
                 /\ \A i \in 1..Len(loader.available_stigs) : loader.available_stigs[i].file # d.file
                 /\ d.file \in Range(loader.printed)

\* a folder was loaded in which a document that parses comes after one that
\* does not
C21_Witness ==
    /\ loader.pc = "done"
    /\ \E i, j \in 1..Len(loader.folder) :
           /\ i < j
           /\ loader.folder[i] \in FailedDocuments
           /\ loader.folder[j].file = "splunk.xml"
    /\ \E k \in 1..Len(loader.available_stigs) : loader.available_stigs[k].file = "splunk.xml"
    /\ "AU-3" \in DOMAIN loader.all_recommendations["Splunk Enterprise STIG"]

(***************************************************************************)
(* C25: after load_stig_data, for every document that parsed and every     *)
(* control, the recommendations under technology -> control are the rules  *)
(* of the document that have a rule id, a title and fix text and a         *)
(* cross-reference id mapped to the control, in document order; the        *)
(* control has no entry only when there is no such rule.                   *)
(***************************************************************************)
C25_EveryMappedRuleIsIndexed ==
    loader.pc = "done" =>
        \A i \in 1..Len(ParsedDocuments) : \A control \in MappedControls :
            /\ stig_info(ParsedDocuments[i]).technology \in DOMAIN loader.all_recommendations
            /\ IF RulesFor(ParsedDocuments[i], control) = <<>>
               THEN control \notin
                        DOMAIN loader.all_recommendations[stig_info(ParsedDocuments[i]).technology]
               ELSE /\ control \in
                        DOMAIN loader.all_recommendations[stig_info(ParsedDocuments[i]).technology]
                    /\ loader.all_recommendations[stig_info(ParsedDocuments[i]).technology][control]
                         = RulesFor(ParsedDocuments[i], control)

(***************************************************************************)
(* What C24 speaks of: the guidance lines a response shows for a control,  *)
(* and the retrieved documents that refer to the control.                  *)
(***************************************************************************)
\* the lines under "Implementation Guidance:" in the section of control_id,
\* up to the next sub-heading or the end of the section
GuidanceShown(text, control_id) ==
    SplitLines(SplitOnce(SplitOnce(SectionOf(text, control_id),
                                   "Implementation Guidance:" \o Style_RESET_ALL \o "\n")[2],
                         "\n" \o Fore_CYAN)[1])

\* the retrieved documents that are about control_id itself and do not carry
\* the assessment tag, in retrieval order
RefersTo(control_id, docs) ==
    SelectSeq(docs, LAMBDA d : /\ DocControlId(d) = control_id
                               /\ ~Contains(SplitOn(d, ", ")[1], "Assessment"))

(***************************************************************************)
(* C24: in a response to a query with implementation intent, the guidance  *)
(* lines of every resolved catalog control are the retrieved documents     *)
(* that refer to that control itself and are not assessment-tagged, in     *)
(* retrieval order, or the one generic fallback line when there is none.   *)
(***************************************************************************)
C24_GuidanceRefersToControl ==
    (TurnComplete /\ FinalResponseEntered
        /\ is_implement_query(QueryLower) /\ ~is_assessment_query(QueryLower))
        => \A i \in 1..Len(ResolvedIds) :
               InCatalog(ResolvedIds[i])
                   => GuidanceShown(result.text, ResolvedIds[i])
                        = GuidanceOf(RefersTo(ResolvedIds[i], retrieved_docs))

(***************************************************************************)
(* What C22, C23 and C27 speak of: the calls that go through the loop over *)
(* the resolved control ids.                                               *)
(***************************************************************************)
\* the last call reached the loop over control_ids (line 341): the final
\* response was entered with the technologies selected
ControlLoopEntered ==
    /\ FinalResponseEntered
    /\ HasTechIndex(query) \/ Len(filtered_stigs(tech_keywords(QueryLower))) <= 1

\* the lines under "Assessment Steps:" in the section of control_id, up to
\* the next sub-heading or the end of the section
StepsShown(text, control_id) ==
    SplitLines(SplitOnce(SplitOnce(SectionOf(text, control_id),
                                   "Assessment Steps:" \o Style_RESET_ALL \o "\n")[2],
                         "\n" \o Fore_CYAN)[1])

\* the steps of the Actionable-Step Extractor on the description of ctrl are
\* shown, and one more step after them when ctrl has parameters
ExtractorStepsShown(shown, ctrl) ==
    /\ Len(shown) = Len(extract_actionable_steps(ctrl.description))
                    + (IF ctrl.parameters # <<>> THEN 1 ELSE 0)
    /\ SubSeq(shown, 1, Len(extract_actionable_steps(ctrl.description)))
           = ProcedureLines(extract_actionable_steps(ctrl.description))

(***************************************************************************)
(* C22: a call with assessment intent (no checklist requested) returns     *)
(* without error, and for every resolved control of the catalog the        *)
(* response shows the canonical assessment procedures when the control has *)
(* them, otherwise the extractor's steps on the description, followed by a *)
(* parameter-confirmation step when the control has parameters.            *)
(***************************************************************************)
C22_AssessmentStepsEmitted ==
    (ControlLoopEntered /\ is_assessment_query(QueryLower) /\ ~generate_checklist)
        => /\ result.raised = ""
           /\ \A i \in 1..Len(ResolvedIds) :
                  InCatalog(ResolvedIds[i])
                      => IF ResolvedIds[i] \in DOMAIN assessment_procedures
                         THEN StepsShown(result.text, ResolvedIds[i])
                                = ProcedureLines(assessment_procedures[ResolvedIds[i]])
                         ELSE ExtractorStepsShown(StepsShown(result.text, ResolvedIds[i]),
                                                  control_details(ResolvedIds[i]))

\* every step list the call has to show is a canonical procedure list
CanonicalStepsOnly ==
    is_assessment_query(QueryLower)
        => \A i \in 1..Len(ResolvedIds) :
               InCatalog(ResolvedIds[i]) => ResolvedIds[i] \in DOMAIN assessment_procedures

(***************************************************************************)
(* C23: when a checklist was requested, the call returns and the response  *)
(* reports a saved checklist file in the section of every resolved control *)
(* of the catalog, and in the section of no other resolved control id.     *)
(***************************************************************************)
C23_ChecklistPerCatalogControl ==
    (ControlLoopEntered /\ generate_checklist /\ CanonicalStepsOnly)
        => /\ result.raised = ""
           /\ \A i \in 1..Len(ResolvedIds) :
                  InCatalog(ResolvedIds[i])
                      <=> Contains(SectionOf(result.text, ResolvedIds[i]), "Checklist Saved:")

(***************************************************************************)
(* C26: the first call of a turn is processed as a new query whatever the  *)
(* entered text: when the text is not a lookup and technology filtering    *)
(* leaves more than AutoSelectMax candidates, the call returns the         *)
(* clarification prompt and selects no technology.                         *)
(***************************************************************************)
C26_FirstTurnIsNewQuery ==
    (/\ calls = 1
     /\ CciMatch(TypedLower) = ""
     /\ ReverseMatch(TypedLower) = ""
     /\ Len(Candidates) > AutoSelectMax)
        => /\ result.raised = ""
           /\ NeedsClarification(result.text)
           /\ result.selected_techs = <<>>
           /\ pc = "choice"

\* the response res to query q, given with the retrieved documents docs,
\* answers every resolved control from the catalog, with at least one
\* retrieved document
FullyAnswered(q, res, docs) ==
    /\ res.raised = ""
    /\ Len(docs) >= 1
    /\ control_ids(Lower(original_query(q)), docs) # <<>>
    /\ \A i \in 1..Len(control_ids(Lower(original_query(q)), docs)) :
           /\ InCatalog(control_ids(Lower(original_query(q)), docs)[i])
           /\ Processed(res.text, control_ids(Lower(original_query(q)), docs)[i])
    /\ ~Contains(res.text, "No specific information found for this query.")

(***************************************************************************)
(* C27: a step changes the unknown-query log only when the response shows  *)
(* no coverage: never when it completes a turn in which every resolved     *)
(* control was found in the catalog and answered, with at least one        *)
(* retrieved document.                                                     *)
(***************************************************************************)
C27_AnsweredQueryNotLogged ==
    [][unknown_queries' # unknown_queries
          => \A q \in {query'}, res \in {result'}, docs \in {retrieved_docs'} :
                 ~FullyAnswered(q, res, docs)]_vars
====
